---- MODULE Spec2Model ----
(***************************************************************************)
(* Month-record service of yt6363/three-axis (backend/app).                *)
(*                                                                         *)
(*   utils.py     ResponseCache        the in-memory TTL store             *)
(*   database.py  planetary_events     the persistent store                *)
(*   main.py      swiss_monthly, swiss_monthly_batch, cache_stats          *)
(*   swiss.py     compute_monthly      the monthly orchestrator            *)
(*                                                                         *)
(*   swiss.py     _initialise_once, the scanners and the assembly of a     *)
(*                month record                                             *)
(*                                                                         *)
(* Specifications over one state:                                          *)
(*   SpecCache  ResponseCache.get / set / prune under a running clock      *)
(*   SpecDB     the functions of database.py called with the parameters    *)
(*              they declare                                               *)
(*   Spec       the service: startup, /api/swiss/monthly,                  *)
(*              /api/swiss/monthly/batch, /api/cache/stats                 *)
(*   SpecBatchBody  the computation phase of swiss_monthly_batch           *)
(*              (main.py 279-321) entered with a work list                 *)
(*   SpecInitOnce  threads calling swiss._initialise_once                   *)
(*   SpecScan   _find_sign_changes, _find_segment_changes, _find_stations  *)
(*              and _find_combustion over sampled functions, the merge of  *)
(*              _velocity_extrema_for_planet, _mod360 on floats            *)
(*   SpecLoops  the loops of the scanners, an iteration a step             *)
(*   SpecMonthly  compute_monthly from the scanners' results to the        *)
(*              record it returns, compute_horizon, _add_month             *)
(*   SpecSeries  /api/planetary/timeseries and                             *)
(*              compute_planetary_timeseries                               *)
(***************************************************************************)
EXTENDS Integers, Sequences, FiniteSets, TLC

(***************************************************************************)
(* Bounds of the model.                                                    *)
(***************************************************************************)
MaxTicks == 2
MaxWrites == 2
MaxDbTicks == 1
MaxInFlight == 2
MaxTasks == 7
MaxThreads == 3
MaxCalls == 2
MaxSteps == 3
MaxHints == 3
\* binary floating point is modelled with MantBits significant bits and
\* values that are multiples of 2^-FracBits degree
MantBits == 10
FracBits == 10

(***************************************************************************)
(* Program constants.                                                      *)
(***************************************************************************)
\* main.py:47  events_cache = ResponseCache(ttl_seconds=3600)
EVENTS_TTL == 3600
\* main.py:309  semaphore = Semaphore(6)
SEMAPHORE_LIMIT == 6

(***************************************************************************)
(* Request data.  lat and lon are floats; the model writes them as         *)
(* integers in units of 1e-5 degree.  A month_start_iso string             *)
(* "YYYY-MM-DD" is the record of its three numbers; its first seven        *)
(* characters are the year and the month.                                  *)
(***************************************************************************)
Lats == {1907600, 1907604}
Lons == {7287770}
Tzs == {"Asia/Kolkata", "America/New_York"}

Iso(y, m, d) == [year |-> y, month |-> m, day |-> d]

Payload(lat, lon, tz, iso, ay) ==
    [lat |-> lat, lon |-> lon, tz |-> tz, month_start_iso |-> iso, ayanamsa |-> ay]

(***************************************************************************)
(* swiss.py: the monthly orchestrator as a function of its arguments.      *)
(***************************************************************************)
DaysInMonth(year, month) ==
    IF month = 2
    THEN (IF year % 4 = 0 /\ (year % 100 # 0 \/ year % 400 = 0) THEN 29 ELSE 28)
    ELSE IF month \in {4, 6, 9, 11} THEN 30 ELSE 31

\* datetime.fromisoformat accepts the string
IsoParses(iso) ==
    /\ iso.month \in 1..12
    /\ iso.day \in 1..DaysInMonth(iso.year, iso.month)

NoData == [tz |-> "", month_start |-> Iso(0, 0, 0)]

\* The record depends on tz_name and on the parsed date at 00:00 local time;
\* lat and lon are parameters the body never reads.
compute_monthly(lat, lon, tz_name, month_start_iso) ==
    IF ~IsoParses(month_start_iso)
    THEN [raised |-> "ValueError", data |-> NoData]
    ELSE [raised |-> "none",
          data |-> [tz |-> tz_name, month_start |-> month_start_iso]]

(***************************************************************************)
(* Calls.  A Python call binds its positional arguments to the parameters  *)
(* the callee declares and raises TypeError when there are too many.       *)
(***************************************************************************)
\* swiss.py:938-943  def compute_monthly(lat, lon, tz_name, month_start_iso)
compute_monthly_params == 4
\* database.py:57-59  def get_cached_month(lat, lon, tz, month_start_iso)
get_cached_month_params == 4
\* database.py:79-81  def cache_month(lat, lon, tz, month_start_iso, data)
cache_month_params == 5

Binds(args, params) == Len(args) = params

\* anyio.to_thread.run_sync(compute_monthly, *args): the outcome of the call
\* in the worker thread.
run_sync_compute_monthly(args) ==
    IF Binds(args, compute_monthly_params)
    THEN compute_monthly(args[1], args[2], args[3], args[4])
    ELSE [raised |-> "TypeError", data |-> NoData]

\* {"ok": True, **data}
OkResult(data) == [ok |-> TRUE, data |-> data, error |-> ""]
\* {"ok": False, "error": str(exc)}
ErrResult(msg) == [ok |-> FALSE, data |-> NoData, error |-> msg]

(***************************************************************************)
(* State.                                                                  *)
(***************************************************************************)
VARIABLES
    now,        \* time.time(), in seconds
    ticks,      \* number of clock advances so far
    store,      \* ResponseCache._store of events_cache: key -> CacheEntry
    got,        \* what the last get of SpecCache's caller saw (history)
    lastSet,    \* per key, the time and the data of the last set (history)
    dbUrl,      \* os.getenv("DATABASE_URL"): "unset" or "set"
    dbUp,       \* the database server accepts connections
    pool,       \* database._pool is not None
    table,      \* the rows of planetary_events
    nextId,     \* the SERIAL sequence of planetary_events.id
    dbOut,      \* the outcome of the last call into database.py
    writtenFor, \* per row id, the ayanamsa of the request it was written for (history)
    started,    \* the startup event: "no", "yes" or "failed"
    inflight,   \* /api/swiss/monthly requests waiting for their worker thread
    resp,       \* the last response the service has sent
    batch,      \* per batch request, the state of its computation phase
    initialised, \* swiss._INITIALISED
    initLock,   \* swiss._INIT_LOCK: the thread holding it, 0 when free
    pc,         \* per thread, where it is in _initialise_once and its returns so far
    swe,        \* the Swiss Ephemeris library's settings and the calls that set them
    call,       \* the arguments of the swiss.py function under study
    ret         \* what that function returned

cacheVars == <<store, got, lastSet>>
clockVars == <<now, ticks>>
dbVars == <<dbUrl, dbUp, pool, table, nextId, dbOut, writtenFor>>
svcVars == <<started, inflight, resp>>
initVars == <<initialised, initLock, pc, swe>>
fnVars == <<call, ret>>
swissVars == <<initVars, fnVars>>
vars == <<now, ticks, store, got, lastSet, dbUrl, dbUp, pool, table, nextId,
          dbOut, writtenFor, started, inflight, resp, batch,
          initialised, initLock, pc, swe, call, ret>>

(***************************************************************************)
(* utils.py: ResponseCache.                                                *)
(***************************************************************************)
\* main.py:229  f"monthly|{lat}|{lon}|{tz}|{month_start_iso}|{ayanamsa}"
CacheKey(lat, lon, tz, iso, ay) == <<"monthly", lat, lon, tz, iso, ay>>
KeyOf(p) == CacheKey(p.lat, p.lon, p.tz, p.month_start_iso, p.ayanamsa)

\* ResponseCache.get with the expiry test off by one: an entry is still
\* served at the instant it expires
CacheGetResult_ServesAtExpiry(st, key, t) ==
    IF key \in DOMAIN st /\ st[key].expires_at >= t THEN {st[key].data} ELSE {}

\* ResponseCache.get: the data returned, as a set of at most one element
\* (None is the empty set)
CacheGetResult(st, key, t) ==
    IF key \in DOMAIN st /\ st[key].expires_at > t THEN {st[key].data} ELSE {}

\* ResponseCache.get: the store after the call
CacheGetStore(st, key, t) ==
    IF key \in DOMAIN st /\ st[key].expires_at > t
    THEN st
    ELSE [k \in DOMAIN st \ {key} |-> st[k]]

\* ResponseCache.set: the store after the call
CacheSetStore(st, key, data, t, ttl) ==
    [k \in DOMAIN st \cup {key} |->
        IF k = key THEN [expires_at |-> t + ttl, data |-> data] ELSE st[k]]

\* ResponseCache.prune: the store after the call
CachePruneStore(st, t) ==
    [k \in {k2 \in DOMAIN st : ~(st[k2].expires_at <= t)} |-> st[k]]


InitCache ==
    /\ store = <<>>
    /\ got = [key |-> <<>>, at |-> 0, result |-> {}, entry |-> {}, since |-> {}]
    /\ lastSet = <<>>

InitClock ==
    /\ now = 0
    /\ ticks = 0

\* events_cache.get(key) by any caller; got keeps what the call saw
CGet(key) ==
    /\ got' = [key |-> key, at |-> now,
               result |-> CacheGetResult(store, key, now),
               entry |-> IF key \in DOMAIN store THEN {store[key]} ELSE {},
               since |-> IF key \in DOMAIN lastSet THEN lastSet[key] ELSE {}]
    /\ store' = CacheGetStore(store, key, now)
    /\ UNCHANGED lastSet

\* events_cache.set(key, data) by any caller
CSet(key, data) ==
    /\ store' = CacheSetStore(store, key, data, now, EVENTS_TTL)
    /\ lastSet' = [k \in DOMAIN lastSet \cup {key} |->
                      IF k = key THEN {[at |-> now, data |-> data]} ELSE lastSet[k]]
    /\ UNCHANGED got

\* events_cache.prune()
CPrune ==
    /\ store' = CachePruneStore(store, now)
    /\ UNCHANGED <<got, lastSet>>

\* the clock advances by one second or by one second less than the TTL
Tick ==
    /\ ticks < MaxTicks
    /\ \E d \in {1, EVENTS_TTL - 1} : now' = now + d
    /\ ticks' = ticks + 1

(***************************************************************************)
(* database.py: the persistent store.                                      *)
(***************************************************************************)
\* f"{lat:.4f}": a float in units of 1e-5 degree rounded to units of 1e-4

\* md5 of f"{lat:.4f}|{lon:.4f}|{tz}"; distinct strings have distinct digests
location_hash(lat, lon, tz) ==
    LET Fmt4(x) == IF x >= 0 THEN (x + 5) \div 10 ELSE 0 - ((5 - x) \div 10)
    IN  <<Fmt4(lat), Fmt4(lon), tz>>

\* month_start_iso[:7]
Prefix7(iso) == <<iso.year, iso.month>>

\* json.dumps(data) and json.loads(text)
JsonDumps(data) == [json |-> data]
JsonLoads(text) == text.json

\* get_pool(): asyncpg.create_pool raises when the server is unreachable
GetPoolRaises == ~pool /\ dbUrl = "set" /\ ~dbUp
\* get_pool(): _pool afterwards
GetPoolAfter == pool \/ (dbUrl = "set" /\ dbUp)

Row(id, lh, ms, text, t) ==
    [id |-> id, location_hash |-> lh, month_start |-> ms, data |-> text, computed_at |-> t]

\* SELECT ... WHERE location_hash = $1 AND month_start = $2
SelectRows(tbl, lh, ms) ==
    {r \in tbl : r.location_hash = lh /\ r.month_start = ms}

\* a plain INSERT, without the ON CONFLICT clause or the UNIQUE constraint
Upsert_PlainInsert(tbl, id, lh, ms, text, t) ==
    tbl \cup {Row(id, lh, ms, text, t)}

\* INSERT ... ON CONFLICT (location_hash, month_start) DO UPDATE
\*   SET data = $3, computed_at = NOW()
Upsert(tbl, id, lh, ms, text, t) ==
    IF SelectRows(tbl, lh, ms) # {}
    THEN {IF r \in SelectRows(tbl, lh, ms)
          THEN [r EXCEPT !.data = text, !.computed_at = t]
          ELSE r : r \in tbl}
    ELSE tbl \cup {Row(id, lh, ms, text, t)}

\* get_cache_stats(): the dictionary returned
CacheStats(tbl, enabled) ==
    IF ~enabled
    THEN [total_months_cached |-> 0, unique_locations |-> 0,
          cache_started |-> {}, database_enabled |-> FALSE]
    ELSE [total_months_cached |-> Cardinality(tbl),
          unique_locations |-> Cardinality({r.location_hash : r \in tbl}),
          cache_started |-> IF tbl = {} THEN {} ELSE {CHOOSE x \in {r.computed_at : r \in tbl} :
                                       \A r \in tbl : x <= r.computed_at},
          database_enabled |-> TRUE]

NoStats == CacheStats({}, FALSE)
DbOut(op, raised, hit, stats, for) ==
    [op |-> op, raised |-> raised, hit |-> hit, stats |-> stats, for |-> for]
NoDbOut == DbOut("none", FALSE, {}, NoStats, "")

\* the process starts: no pool yet; the table holds what earlier runs left
InitDB(urls, ups, tables) ==
    /\ dbUrl \in urls
    /\ dbUp \in ups
    /\ pool = FALSE
    /\ table \in tables
    /\ nextId = Cardinality(table) + 1
    /\ dbOut = NoDbOut
    /\ writtenFor = [i \in {r.id : r \in table} |-> "lahiri"]

\* init_db()
InitDbCall ==
    /\ pool' = (IF GetPoolRaises THEN pool ELSE GetPoolAfter)
    /\ dbOut' = DbOut("init_db", GetPoolRaises \/ (GetPoolAfter /\ ~dbUp), {}, NoStats, "")
    /\ UNCHANGED <<dbUrl, dbUp, table, nextId, writtenFor>>

\* get_cached_month(lat, lon, tz, month_start_iso), called for a request
\* whose ayanamsa is ay
GetCachedMonthCall(lat, lon, tz, iso, ay) ==
    LET lh == location_hash(lat, lon, tz)
        ms == Prefix7(iso)
        rows == SelectRows(table, lh, ms)
    IN  /\ pool' = (IF GetPoolRaises THEN pool ELSE GetPoolAfter)
        /\ IF GetPoolRaises \/ (GetPoolAfter /\ ~dbUp)
           THEN dbOut' = DbOut("get_cached_month", TRUE, {}, NoStats, ay)
           ELSE IF ~GetPoolAfter \/ rows = {}
           THEN dbOut' = DbOut("get_cached_month", FALSE, {}, NoStats, ay)
           ELSE \E r \in rows :
                  dbOut' = DbOut("get_cached_month", FALSE,
                                 {[data |-> JsonLoads(r.data), id |-> r.id]}, NoStats, ay)
        /\ UNCHANGED <<dbUrl, dbUp, table, nextId, writtenFor>>

\* cache_month(lat, lon, tz, month_start_iso, data), called for a request
\* whose ayanamsa is ay
CacheMonthCall(lat, lon, tz, iso, data, ay) ==
    LET lh == location_hash(lat, lon, tz)
        ms == Prefix7(iso)
        executes == ~GetPoolRaises /\ GetPoolAfter /\ dbUp
        newTable == Upsert(table, nextId, lh, ms, JsonDumps(data), now)
    IN  /\ nextId <= MaxWrites
        /\ pool' = (IF GetPoolRaises THEN pool ELSE GetPoolAfter)
        /\ dbOut' = DbOut("cache_month", GetPoolRaises \/ (GetPoolAfter /\ ~dbUp),
                          {}, NoStats, ay)
        /\ table' = (IF executes THEN newTable ELSE table)
        /\ nextId' = (IF executes THEN nextId + 1 ELSE nextId)
        /\ writtenFor' =
              (IF executes
               THEN [i \in {r.id : r \in newTable} |->
                        IF \E r \in newTable :
                              r.id = i /\ r.location_hash = lh /\ r.month_start = ms
                        THEN ay ELSE writtenFor[i]]
               ELSE writtenFor)
        /\ UNCHANGED <<dbUrl, dbUp>>

\* get_cache_stats()
GetCacheStatsCall ==
    /\ pool' = (IF GetPoolRaises THEN pool ELSE GetPoolAfter)
    /\ dbOut' = (IF GetPoolRaises \/ (GetPoolAfter /\ ~dbUp)
                 THEN DbOut("get_cache_stats", TRUE, {}, NoStats, "")
                 ELSE DbOut("get_cache_stats", FALSE, {},
                            CacheStats(table, GetPoolAfter), ""))
    /\ UNCHANGED <<dbUrl, dbUp, table, nextId, writtenFor>>

\* the database server becomes unreachable or reachable again
DbOutage ==
    /\ dbUp' = ~dbUp
    /\ UNCHANGED <<dbUrl, pool, table, nextId, dbOut, writtenFor>>

(***************************************************************************)
(* main.py: the service.                                                   *)
(***************************************************************************)
SvcMonths == {Iso(2023, 7, 1), Iso(2023, 13, 1)}
SvcPayloads ==
    {Payload(1907600, 7287770, "Asia/Kolkata", iso, ay) :
        iso \in SvcMonths, ay \in {"lahiri", "tropical"}}

BatchPayload(lat, lon, tz, isos, ay) ==
    [lat |-> lat, lon |-> lon, tz |-> tz, month_start_isos |-> isos, ayanamsa |-> ay]

\* the batch requests, by their month lists
SvcBatchPayloads ==
    LET BatchLists ==
            {<<m>> : m \in SvcMonths}
              \cup {<<Iso(2023, 7, 1), Iso(2023, 8, 1)>>, <<Iso(2023, 13, 1), Iso(2023, 7, 1)>>}
    IN  {BatchPayload(1907600, 7287770, "Asia/Kolkata", isos, ay) :
            isos \in BatchLists, ay \in {"lahiri", "tropical"}}

NoPayload == Payload(0, 0, "", Iso(0, 0, 0), "")
NoBatchPayload == BatchPayload(0, 0, "", <<>>, "")

\* a response: status 200 carries the body, any other status is an
\* HTTPException or an unhandled exception and carries no body
Resp(endpoint, req, breq, status, body, months, stats, detail) ==
    [endpoint |-> endpoint, req |-> req, breq |-> breq, status |-> status,
     body |-> body, months |-> months, stats |-> stats, detail |-> detail]
\* /api/swiss/monthly: the cached or computed result, or an HTTPException
MResp(req, status, body, detail) ==
    Resp("monthly", req, NoBatchPayload, status, body, <<>>, NoStats, detail)
\* /api/swiss/monthly/batch: {"ok": True, "months": results}, or an exception
BResp(breq, status, months, detail) ==
    Resp("batch", NoPayload, breq, status, {}, months, NoStats, detail)
\* /api/cache/stats: {"ok": True, **stats}, or an exception
SResp(status, stats) ==
    Resp("stats", NoPayload, NoBatchPayload, status, {}, <<>>, stats, "")
NoResp == Resp("none", NoPayload, NoBatchPayload, 0, {}, <<>>, NoStats, "")

InFlightTotal(f) ==
    LET RECURSIVE Sum(_)
        Sum(S) == IF S = {} THEN 0
                  ELSE LET p == CHOOSE q \in S : TRUE IN f[p] + Sum(S \ {p})
    IN Sum(DOMAIN f)

BatchIds == {1, 2}
IdleBatch ==
    [pc |-> "idle", payload |-> NoBatchPayload, uncached_months |-> <<>>,
     results |-> <<>>, task |-> <<>>, computed_results |-> <<>>, semaphore |-> 0]

InitSvc ==
    /\ started = "no"
    /\ inflight = [p \in SvcPayloads |-> 0]
    /\ resp = NoResp
    /\ batch = [b \in BatchIds |-> IdleBatch]

\* startup_event(): await init_db()
Startup ==
    /\ started = "no"
    /\ InitDbCall
    /\ started' = (IF dbOut'.raised THEN "failed" ELSE "yes")
    /\ UNCHANGED <<inflight, resp>>

\* swiss_monthly, lines 229-242: the cache lookup and, on a miss, the
\* dispatch of compute_monthly to a worker thread
MonthlyRequest(p) ==
    /\ started = "yes"
    /\ InFlightTotal(inflight) < MaxInFlight
    /\ store' = CacheGetStore(store, KeyOf(p), now)
    /\ IF CacheGetResult(store, KeyOf(p), now) # {}
       THEN /\ resp' = MResp(p, 200, CacheGetResult(store, KeyOf(p), now), "")
            /\ UNCHANGED inflight
       ELSE /\ inflight' = [inflight EXCEPT ![p] = @ + 1]
            /\ UNCHANGED resp
    /\ UNCHANGED <<started, got, lastSet>>

\* swiss_monthly, lines 243-250: the worker thread has finished
MonthlyFinish(p) ==
    LET out == run_sync_compute_monthly(
                   <<p.lat, p.lon, p.tz, p.month_start_iso, p.ayanamsa>>)
    IN  /\ inflight[p] > 0
        /\ inflight' = [inflight EXCEPT ![p] = @ - 1]
        /\ IF out.raised = "ValueError"
           THEN /\ resp' = MResp(p, 400, {}, out.raised)
                /\ UNCHANGED cacheVars
           ELSE IF out.raised # "none"
           THEN /\ resp' = MResp(p, 500, {}, out.raised)
                /\ UNCHANGED cacheVars
           ELSE /\ CSet(KeyOf(p), OkResult(out.data))
                /\ resp' = MResp(p, 200, {OkResult(out.data)}, "")
        /\ UNCHANGED started

\* cache_stats
StatsRequest ==
    /\ started = "yes"
    /\ GetCacheStatsCall
    /\ resp' = (IF dbOut'.raised THEN SResp(500, NoStats) ELSE SResp(200, dbOut'.stats))
    /\ UNCHANGED <<started, inflight>>

MapPut(f, k, v) == [x \in DOMAIN f \cup {k} |-> IF x = k THEN v ELSE f[x]]

\* swiss_monthly_batch, lines 264-277, from the i-th requested month on:
\* the persistent store first, then the in-memory store
RECURSIVE LookupLoop(_, _, _, _, _)
LookupLoop(bp, i, res, unc, st) ==
    IF i > Len(bp.month_start_isos)
    THEN [raised |-> FALSE, results |-> res, uncached |-> unc, store |-> st]
    ELSE LET m == bp.month_start_isos[i]
             key == CacheKey(bp.lat, bp.lon, bp.tz, m, bp.ayanamsa)
             rows == IF GetPoolAfter
                     THEN SelectRows(table, location_hash(bp.lat, bp.lon, bp.tz), Prefix7(m))
                     ELSE {}
         IN  IF GetPoolRaises \/ (GetPoolAfter /\ ~dbUp)
             THEN [raised |-> TRUE, results |-> res, uncached |-> unc, store |-> st]
             ELSE IF rows # {}
             THEN LookupLoop(bp, i + 1,
                      MapPut(res, m, OkResult(JsonLoads((CHOOSE r \in rows : TRUE).data))),
                      unc, st)
             ELSE IF CacheGetResult(st, key, now) # {}
             THEN LookupLoop(bp, i + 1,
                      MapPut(res, m, CHOOSE x \in CacheGetResult(st, key, now) : TRUE),
                      unc, st)
             ELSE LookupLoop(bp, i + 1, res, Append(unc, m), CacheGetStore(st, key, now))

\* the state of a batch request when its computation phase starts (line 280)
Gathering(bp, uncached, res) ==
    [pc |-> "gather", payload |-> bp, uncached_months |-> uncached, results |-> res,
     task |-> [i \in 1..Len(uncached) |-> "pending"],
     computed_results |-> [i \in 1..Len(uncached) |-> {}],
     semaphore |-> SEMAPHORE_LIMIT]

\* swiss_monthly_batch, lines 260-278.  The first thing the handler does is
\* call get_cached_month with five arguments.
BatchRequest(bp) ==
    LET m1 == bp.month_start_isos[1]
        L == LookupLoop(bp, 1, <<>>, <<>>, store)
    IN  /\ started = "yes"
        /\ IF ~Binds(<<bp.lat, bp.lon, bp.tz, m1, bp.ayanamsa>>, get_cached_month_params)
           THEN /\ resp' = BResp(bp, 500, <<>>, "TypeError")
                /\ UNCHANGED <<store, pool, batch>>
           ELSE IF L.raised
           THEN /\ resp' = BResp(bp, 500, <<>>, "database")
                /\ UNCHANGED <<store, pool, batch>>
           ELSE IF L.uncached = <<>>
           THEN /\ resp' = BResp(bp, 200, L.results, "")
                /\ store' = L.store
                /\ pool' = GetPoolAfter
                /\ UNCHANGED batch
           ELSE /\ \E b \in BatchIds :
                      /\ batch[b].pc = "idle"
                      /\ batch' = [batch EXCEPT ![b] = Gathering(bp, L.uncached, L.results)]
                /\ store' = L.store
                /\ pool' = GetPoolAfter
                /\ UNCHANGED resp
        /\ UNCHANGED <<started, inflight, got, lastSet,
                       dbUrl, dbUp, table, nextId, dbOut, writtenFor>>

(***************************************************************************)
(* main.py 279-321: the computation phase of a batch request.              *)
(***************************************************************************)
\* control reaches line 280 with a work list
EnterCompute(b, bp) ==
    /\ batch[b].pc = "idle"
    /\ batch' = [batch EXCEPT ![b] = Gathering(bp, bp.month_start_isos, <<>>)]

\* a semaphore whose acquire lets one task too many through
SemaphoreFree_OffByOne(value) == value >= 0

\* asyncio.Semaphore.acquire returns without waiting
SemaphoreFree(value) == value > 0

\* compute_with_limit, line 312: the task enters "async with semaphore" and
\* compute_one_month hands compute_monthly to a worker thread.  Tasks are
\* started in list order and waiters are woken first-in first-out.
TaskStart(b, i) ==
    /\ batch[b].pc = "gather"
    /\ i \in DOMAIN batch[b].task
    /\ batch[b].task[i] = "pending"
    /\ \A j \in 1..(i - 1) : batch[b].task[j] # "pending"
    /\ SemaphoreFree(batch[b].semaphore)
    /\ batch' = [batch EXCEPT ![b].task[i] = "running", ![b].semaphore = @ - 1]

TaskDone(b, i, result) ==
    [batch EXCEPT ![b].task[i] = "done",
                  ![b].computed_results[i] = {<<batch[b].uncached_months[i], result>>},
                  ![b].semaphore = @ + 1]

\* compute_one_month, lines 283-301, once the worker thread has finished,
\* and the release of the semaphore
TaskFinish(b, i) ==
    LET bp == batch[b].payload
        m == batch[b].uncached_months[i]
        out == run_sync_compute_monthly(<<bp.lat, bp.lon, bp.tz, m, bp.ayanamsa>>)
        key == CacheKey(bp.lat, bp.lon, bp.tz, m, bp.ayanamsa)
    IN  /\ batch[b].pc = "gather"
        /\ i \in DOMAIN batch[b].task
        /\ batch[b].task[i] = "running"
        /\ IF out.raised # "none"
           THEN /\ batch' = TaskDone(b, i, ErrResult(out.raised))
                /\ UNCHANGED <<cacheVars, dbVars>>
           ELSE /\ CSet(key, OkResult(out.data))
                /\ IF ~Binds(<<bp.lat, bp.lon, bp.tz, m, out.data, bp.ayanamsa>>,
                             cache_month_params)
                   THEN /\ batch' = TaskDone(b, i, ErrResult("TypeError"))
                        /\ UNCHANGED dbVars
                   ELSE /\ CacheMonthCall(bp.lat, bp.lon, bp.tz, m, out.data, bp.ayanamsa)
                        /\ batch' = TaskDone(b, i, IF dbOut'.raised
                                                   THEN ErrResult("database")
                                                   ELSE OkResult(out.data))

\* lines 318-319: for month_iso, result in computed_results
FoldResults_FirstOnly(res, computed, i) ==
    IF i > Len(computed) THEN res
    ELSE LET pair == CHOOSE x \in computed[i] : TRUE
         IN MapPut(res, pair[1], pair[2])
RECURSIVE FoldResults(_, _, _)
FoldResults(res, computed, i) ==
    IF i > Len(computed) THEN res
    ELSE LET pair == CHOOSE x \in computed[i] : TRUE
         IN FoldResults(MapPut(res, pair[1], pair[2]), computed, i + 1)

\* a gather that lets the first failed month fail the request
Gathered_FailFast(b) ==
    /\ batch[b].pc = "gather"
    /\ \A i \in DOMAIN batch[b].task : batch[b].task[i] = "done"
    /\ resp' = (IF \E i \in DOMAIN batch[b].task :
                       \E x \in batch[b].computed_results[i] : ~x[2].ok
                THEN BResp(batch[b].payload, 500, <<>>, "month failed")
                ELSE BResp(batch[b].payload, 200,
                           FoldResults(batch[b].results, batch[b].computed_results, 1), ""))
    /\ batch' = [batch EXCEPT ![b] = IdleBatch]

\* asyncio.gather has every result; lines 318-321
Gathered(b) ==
    /\ batch[b].pc = "gather"
    /\ \A i \in DOMAIN batch[b].task : batch[b].task[i] = "done"
    /\ resp' = BResp(batch[b].payload, 200,
                      FoldResults(batch[b].results, batch[b].computed_results, 1), "")
    /\ batch' = [batch EXCEPT ![b] = IdleBatch]

(***************************************************************************)
(* swiss.py: _initialise_once (188-215).  Each thread runs the function    *)
(* one statement at a time; reads and writes of the module global are      *)
(* atomic, the lock is threading.Lock.  pc[t].at is the line thread t is   *)
(* at, pc[t].returns the calls it has returned from; swe is the state of   *)
(* the swisseph library with the number of calls of each setter, the       *)
(* environment (env: $SWISS_EPHE_PATH is set) and the directories that     *)
(* exist (dirs).                                                           *)
(***************************************************************************)
Threads == 1..MaxThreads

\* _candidate_ephe_paths (192-200), in the order it yields them
candidate_ephe_paths(env) ==
    (IF env THEN <<"$SWISS_EPHE_PATH">> ELSE <<>>)
      \o <<"vedic-ui/node_modules/swisseph/ephe", "swisseph/ephe", "/usr/share/swisseph">>

NoRet == [fn |-> "none"]

\* module import: _INIT_LOCK = threading.Lock(); _INITIALISED = False
InitOnce(envs, dirsets) ==
    /\ initialised = FALSE
    /\ initLock = 0
    /\ pc = [t \in Threads |-> [at |-> "idle", returns |-> 0]]
    /\ \E env \in envs, dirs \in dirsets :
          swe = [env |-> env, dirs |-> dirs, sid_mode |-> "default", ephe_path |-> "default",
                 sid_calls |-> 0, path_calls |-> 0]

InitFn ==
    /\ call = [fn |-> "none"]
    /\ ret = NoRet

\* the swiss module is loaded and nothing of it is running
InitSwissIdle == InitOnce({FALSE}, {{}}) /\ InitFn

\* the test of line 208 with the lock held
SecondCheck_Skipped(flag) == FALSE
SecondCheck(flag) == flag

(***************************************************************************)
(* swiss.py: time, longitudes and the scanned function.                    *)
(*                                                                         *)
(* An instant is an integer number of ticks of 1/16 s of UTC time          *)
(* (datetime keeps microseconds; three halvings of a minute are whole      *)
(* ticks and the bisection stops below one second as in the code).  A      *)
(* longitude is an integer number of arc minutes, so that a sign is 1800   *)
(* and a pada exactly 200; NaN is the value the ephemeris adapter returns  *)
(* when swe raises.                                                        *)
(***************************************************************************)
TICKS == 16
Seconds(n) == n * TICKS
Minutes(n) == n * 60 * TICKS

ARCMIN == 60
\* swiss.py:295  return float("nan"), None
NaN == 0 - 1
isfinite(x) == x # NaN

\* swiss.py:133  PADA_SEGMENT_DEG = NAKSHATRA_SEGMENT_DEG / 4.0
PADA_SEGMENT_DEG == 200

Min2(a, b) == IF a <= b THEN a ELSE b
MaxOf(S) == CHOOSE x \in S : \A y \in S : y <= x

\* 218-220  _mod360 of a finite value
mod360(value) == value % (360 * ARCMIN)
\* 232-233  _sign_index; math.floor raises ValueError on NaN, so callers of
\* this operator test isfinite first and take the raising branch themselves
sign_index(deg) == mod360(deg) \div (30 * ARCMIN)
\* 538-539  _segment_index
segment_index(deg, segment_size) == mod360(deg) \div segment_size
\* 542-545  _pada_from_segment_index
pada_from_segment_index(index) == [nak_idx |-> index \div 4, pada |-> (index % 4) + 1]
\* 548-555  _pada_index_from_lon
pada_index_from_lon(lon) ==
    LET p == pada_from_segment_index(mod360(lon) \div PADA_SEGMENT_DEG)
    IN  [nak_idx |-> p.nak_idx % 27, pada |-> p.pada]

\* fn(dt): 285-303, 819-827.  A scanned function f is a longitude that
\* holds f.lon0 and jumps to changes[i].lon at changes[i].at, and the
\* instants f.nan at which the ephemeris fails.
FnAt(f, t) ==
    IF t \in f.nan THEN NaN
    ELSE LET S == {i \in 1..Len(f.changes) : f.changes[i].at <= t}
         IN  IF S = {} THEN f.lon0 ELSE f.changes[MaxOf(S)].lon

\* 167-171  SignChange
SignChange_Reversed(time_utc, from_index, to_index) ==
    [time_utc |-> time_utc, from_index |-> to_index, to_index |-> from_index]
SignChange(time_utc, from_index, to_index) ==
    [time_utc |-> time_utc, from_index |-> from_index, to_index |-> to_index]

(***************************************************************************)
(* swiss.py: _refine_boundary (458-478).  _sign_index(fn(t)) raises when   *)
(* fn(t) is NaN: at the two ends (463, 464) and at a midpoint (471).       *)
(***************************************************************************)
refine_boundary(f, left, right, desired) ==
    LET RECURSIVE Loop(_, _, _)
        Loop(a, b, s_left) ==
            IF ~(b - a > desired) THEN [raised |-> FALSE, exact |-> b]
            ELSE LET mid == (a + b) \div 2
                     v == FnAt(f, mid)
                 IN  IF ~isfinite(v) THEN [raised |-> TRUE, exact |-> mid]
                     ELSE IF sign_index(v) = s_left
                          THEN Loop(mid, b, s_left)
                          ELSE Loop(a, mid, s_left)
    IN  IF ~isfinite(FnAt(f, left)) THEN [raised |-> TRUE, exact |-> left]
        ELSE IF ~isfinite(FnAt(f, right)) THEN [raised |-> TRUE, exact |-> right]
        ELSE IF sign_index(FnAt(f, left)) = sign_index(FnAt(f, right))
             THEN [raised |-> FALSE, exact |-> right]
        ELSE Loop(left, right, sign_index(FnAt(f, left)))

(***************************************************************************)
(* swiss.py: _find_sign_changes (481-535).  None is the empty sequence.    *)
(***************************************************************************)
\* what a scanner call yields: the exception it raised and its list
Scanned(raised, out) == [raised |-> raised, out |-> out]

\* 492-501, 570-583  the first finite sample: <<t, prev_index>>, prev_index
\* None if ten samples failed
RECURSIVE FirstFinite(_, _, _, _, _, _)
FirstFinite(f, t, end, coarse_delta, guard, size) ==
    IF ~(guard < 10 /\ t <= end) THEN [t |-> t, prev_index |-> <<>>]
    ELSE IF isfinite(FnAt(f, t))
         THEN [t |-> t, prev_index |-> <<segment_index(FnAt(f, t), size)>>]
         ELSE FirstFinite(f, Min2(t + coarse_delta, end), end, coarse_delta, guard + 1, size)

\* 523-526  both probes classify as the detected transition
HysteresisOk_Unchecked(before_idx, after_idx, prev_index, next_index) == TRUE
HysteresisOk(before_idx, after_idx, prev_index, next_index) ==
    before_idx = prev_index /\ after_idx = next_index

\* 527-528, 611  last_pushed is None or _datetime_range_seconds(last_pushed, exact) > 5.0
NotDuplicate_Always(last_pushed, exact) == TRUE
NotDuplicate(last_pushed, exact) ==
    last_pushed = <<>> \/ exact - last_pushed[1] > Seconds(5)

find_sign_changes(f, start, end, coarse_minutes) ==
    LET coarse_delta == Minutes(coarse_minutes)
        first == FirstFinite(f, start, end, coarse_delta, 0, 30 * ARCMIN)
        \* 507-534
        RECURSIVE Loop(_, _, _, _)
        Loop(t, prev_index, last_pushed, out) ==
            IF ~(t < end) THEN Scanned("none", out)
            ELSE
              LET t_next == Min2(t + coarse_delta, end)
                  deg_next == FnAt(f, t_next)
                  skip == Loop(t_next, prev_index, last_pushed, out)
              IN
              IF ~isfinite(deg_next) THEN skip
              ELSE IF sign_index(deg_next) = prev_index THEN skip
              ELSE
                LET next_index == sign_index(deg_next)
                    r == refine_boundary(f, t, t_next, Seconds(1))
                    exact == r.exact
                    before == FnAt(f, exact - Seconds(1))
                    after == FnAt(f, exact + Seconds(1))
                IN
                IF r.raised THEN Scanned("ValueError", out)
                ELSE IF ~(isfinite(before) /\ isfinite(after)) THEN skip
                ELSE IF /\ HysteresisOk(sign_index(before), sign_index(after),
                                        prev_index, next_index)
                        /\ NotDuplicate(last_pushed, exact)
                     THEN Loop(t_next, next_index, <<exact>>,
                               Append(out, SignChange(exact, prev_index, next_index)))
                     ELSE skip
    IN  IF first.prev_index = <<>> THEN Scanned("none", <<>>)
        ELSE Loop(first.t, first.prev_index[1], <<>>, <<>>)

(***************************************************************************)
(* swiss.py: _find_segment_changes (558-618).                              *)
(***************************************************************************)
find_segment_changes(f, start, end, segment_size, coarse_minutes) ==
    LET coarse_delta == Minutes(coarse_minutes)
        first == FirstFinite(f, start, end, coarse_delta, 0, segment_size)
        \* 596-610  at most 60 halvings; a NaN midpoint moves the left end
        RECURSIVE Bisect(_, _, _, _, _)
        Bisect(left, right, left_idx, next_index, n) ==
            IF n = 60 \/ right - left <= Seconds(1)
            THEN [exact |-> right, next_index |-> next_index]
            ELSE LET mid == (left + right) \div 2
                     deg_mid == FnAt(f, mid)
                 IN  IF ~isfinite(deg_mid)
                     THEN Bisect(mid, right, left_idx, next_index, n + 1)
                     ELSE IF segment_index(deg_mid, segment_size) = left_idx
                          THEN Bisect(mid, right, left_idx, next_index, n + 1)
                          ELSE Bisect(left, mid, left_idx,
                                      segment_index(deg_mid, segment_size), n + 1)
        \* 585-617
        RECURSIVE Loop(_, _, _, _)
        Loop(t, prev_index, last_pushed, out) ==
            IF ~(t < end) THEN Scanned("none", out)
            ELSE
              LET t_next == Min2(t + coarse_delta, end)
                  deg_next == FnAt(f, t_next)
                  skip == Loop(t_next, prev_index, last_pushed, out)
              IN
              IF ~isfinite(deg_next) THEN skip
              ELSE IF segment_index(deg_next, segment_size) = prev_index THEN skip
              ELSE
                LET b == Bisect(t, t_next, prev_index,
                                segment_index(deg_next, segment_size), 0)
                IN
                IF NotDuplicate(last_pushed, b.exact)
                THEN Loop(b.exact, b.next_index, <<b.exact>>,
                          Append(out, SignChange(b.exact, prev_index, b.next_index)))
                ELSE skip
    IN  IF first.prev_index = <<>> THEN Scanned("none", <<>>)
        ELSE Loop(first.t, first.prev_index[1], <<>>, <<>>)

(***************************************************************************)
(* swiss.py: calendar and timezone arithmetic of compute_monthly.          *)
(*                                                                         *)
(* Instants count ticks from 2023-01-01T00:00:00Z.  A local wall-clock     *)
(* time (an aware datetime's fields, or the "%Y-%m-%d %H:%M:%S" string     *)
(* that _format_local prints) is the number of ticks its fields count      *)
(* from 2023-01-01 00:00:00 on the wall clock; strings of four-digit years *)
(* compare as these numbers do.  A zone is its UTC offset and the          *)
(* transitions of its clock between November 2022 and March 2024.          *)
(***************************************************************************)
Hours(n) == n * 3600 * TICKS
Days(n) == n * 86400 * TICKS

\* the fields of a datetime, or of an ISO string "YYYY-MM-DDTHH:MM:SS"
\* without offset; sod is the second of the day
Local(y, m, d, sod) == [year |-> y, month |-> m, day |-> d, sod |-> sod]

\* days from 2023-01-01 to the civil date (proleptic Gregorian)
DaysFromEpoch(y, m, d) ==
    LET yy == IF m <= 2 THEN y - 1 ELSE y
        era == yy \div 400
        yoe == yy - era * 400
        mp == IF m > 2 THEN m - 3 ELSE m + 9
        doy == (153 * mp + 2) \div 5 + d - 1
        doe == yoe * 365 + yoe \div 4 - yoe \div 100 + doy
    IN  era * 146097 + doe - 719468 - 19358

\* the wall-clock reading of a datetime's fields
Wall(dt) == Days(DaysFromEpoch(dt.year, dt.month, dt.day)) + Seconds(dt.sod)

\* ZoneInfo(tz_name): standard offset in seconds and the clock changes
ZoneInfo(tz_name) ==
    IF tz_name = "America/New_York"
    THEN [std |-> 0 - 18000,
          trans |-> <<[at |-> Days(DaysFromEpoch(2023, 3, 12)) + Hours(7),
                       before |-> 0 - 18000, after |-> 0 - 14400],
                      [at |-> Days(DaysFromEpoch(2023, 11, 5)) + Hours(6),
                       before |-> 0 - 14400, after |-> 0 - 18000]>>]
    ELSE [std |-> 19800, trans |-> <<>>]

\* datetime.timestamp() / _to_utc of an aware local datetime with fold = 0:
\* a clock change applies from the later of its two wall-clock readings on,
\* so a repeated reading is its first occurrence and a skipped reading
\* keeps the old offset
WallToUtc(tz_name, w) ==
    LET z == ZoneInfo(tz_name)
        Later(tr) == tr.at + Seconds(IF tr.before > tr.after THEN tr.before ELSE tr.after)
        S == {i \in 1..Len(z.trans) : Later(z.trans[i]) <= w}
        utcoffset == IF S = {} THEN z.std ELSE z.trans[MaxOf(S)].after
    IN  w - Seconds(utcoffset)

\* 252-255  _format_local: the wall-clock reading of the instant in the zone,
\* printed to the second
format_local(t, tz_name) ==
    LET z == ZoneInfo(tz_name)
        S == {i \in 1..Len(z.trans) : z.trans[i].at <= t}
        utcoffset == IF S = {} THEN z.std ELSE z.trans[MaxOf(S)].after
    IN  ((t + Seconds(utcoffset)) \div TICKS) * TICKS

\* 796-816  _add_month
add_month_Unclamped(dt, months) ==
    Local(dt.year + (dt.month - 1 + months) \div 12, ((dt.month - 1 + months) % 12) + 1,
          dt.day, dt.sod)
add_month(dt, months) ==
    LET year == dt.year + (dt.month - 1 + months) \div 12
        month == ((dt.month - 1 + months) % 12) + 1
        day == IF dt.day < DaysInMonth(year, month) THEN dt.day ELSE DaysInMonth(year, month)
    IN  Local(year, month, day, dt.sod)

\* 944-954  the month and the scan window of a call; line 945 is
\* _from_iso_local(month_start_iso, tz_name).replace(hour=0, minute=0, second=0, microsecond=0)
Window(tz_name, month_start_iso) ==
    LET msl == Local(month_start_iso.year, month_start_iso.month, month_start_iso.day, 0)
        mel == add_month(msl, 1)
        window_start == Wall(msl) - Days(45)
        window_end == Wall(mel) + Days(45)
    IN  [month_start_local |-> Wall(msl),
         month_end_local |-> Wall(mel),
         start_utc |-> WallToUtc(tz_name, window_start),
         end_utc |-> WallToUtc(tz_name, window_end),
         month_end_utc |-> WallToUtc(tz_name, Wall(mel)),
         month_start_ms |-> WallToUtc(tz_name, Wall(msl)),
         month_end_ms |-> WallToUtc(tz_name, Wall(mel))]

(***************************************************************************)
(* swiss.py: compute_monthly (938-1166) from the results of its scans to   *)
(* the record it returns.  eph is what the ephemeris yields for the call:  *)
(* per scan, the list the scanner returns over [start_utc, end_utc], and   *)
(* the longitudes read at month_start_local.  Signs and nakshatras are     *)
(* written by their index in RASHI and NAKSHATRA_NAMES.  Every row         *)
(* carries, besides the fields of the code, the instant it was rendered    *)
(* from (at, until), which the code's rows do not keep.                    *)
(***************************************************************************)
\* 36-47
PLANET_INGRESS_NAMES ==
    <<"Mercury", "Venus", "Mars", "Jupiter", "Saturn", "Uranus", "Neptune", "Pluto",
      "Rahu", "Ketu">>
\* 49-58
STATION_PLANET_NAMES ==
    <<"Mercury", "Venus", "Mars", "Jupiter", "Saturn", "Uranus", "Neptune", "Pluto">>
\* 60-70  the items of COMBUSTION_ORBS in insertion order: body, orb in degrees
COMBUSTION_ORBS ==
    <<<<"Mercury", 14>>, <<"Venus", 10>>, <<"Mars", 17>>, <<"Jupiter", 11>>, <<"Saturn", 15>>,
      <<"Uranus", 10>>, <<"Neptune", 10>>, <<"Pluto", 10>>, <<"Moon", 12>>>>
\* 72-85  the keys of PLANET_IDS
PLANET_IDS ==
    {"Sun", "Moon", "Mercury", "Venus", "Mars", "Jupiter", "Saturn", "Uranus", "Neptune",
     "Pluto", "Rahu", "Ketu"}
\* 135-146
VELOCITY_PLANETS ==
    <<"Sun", "Moon", "Mercury", "Venus", "Mars", "Jupiter", "Saturn", "Uranus",
      "Neptune", "Pluto">>

\* 175-178  StationEvent
StationEvent(time_utc, kind) == [time_utc |-> time_utc, kind |-> kind]
\* 424-432  an entry of _velocity_extrema_for_planet
VelocityEntry(time_utc, speed, kind) == [time_utc |-> time_utc, speed |-> speed, kind |-> kind]

\* the timestamp a row's local string parses to (982, 999, 1030, 1047, 1124,
\* 1140): _from_iso_local(iso, tz_name).timestamp() of a string without offset
RowMs(iso, tz_name) == WallToUtc(tz_name, iso)

\* 983, 1000, 1031, 1048  month_start_ms <= ms < month_end_ms
InMonth_Closed(w, ms) == w.month_start_ms <= ms /\ ms <= w.month_end_ms
InMonth(w, ms) == w.month_start_ms <= ms /\ ms < w.month_end_ms

\* rows.append / rows.extend over the iterations of a for loop
RECURSIVE Flatten(_)
Flatten(lists) == IF lists = <<>> THEN <<>> ELSE Head(lists) \o Flatten(Tail(lists))

\* list.sort(key=lambda row: row[key]): stable, ascending
SortBy(rows, key) ==
    LET RECURSIVE Insert(_, _, _)
        Insert(sorted, x, i) ==
            IF i > Len(sorted) THEN Append(sorted, x)
            ELSE IF x[key] < sorted[i][key]
                 THEN SubSeq(sorted, 1, i - 1) \o <<x>> \o SubSeq(sorted, i, Len(sorted))
                 ELSE Insert(sorted, x, i + 1)
        RECURSIVE From(_, _)
        From(i, acc) == IF i > Len(rows) THEN acc ELSE From(i + 1, Insert(acc, rows[i], 1))
    IN  From(1, <<>>)

\* 959-992  moonMonthlyRows; the fallback row is appended "if not moon_changes"
moon_monthly(w, tz_name, moon_changes, lon_val) ==
    LET MoonRow(timeISO, p, at) ==
            [timeISO |-> timeISO, nakshatra |-> p.nak_idx % 27, pada |-> p.pada, at |-> at]
        all == [i \in DOMAIN moon_changes |->
                  LET c == moon_changes[i]
                  IN  MoonRow(format_local(c.time_utc, tz_name),
                              pada_from_segment_index(c.to_index), c.time_utc)]
        Keep(r) == InMonth(w, RowMs(r.timeISO, tz_name))
        first == IF moon_changes = <<>> /\ isfinite(lon_val)
                 THEN <<MoonRow(w.month_start_local, pada_index_from_lon(lon_val),
                                w.month_start_ms)>>
                 ELSE <<>>
    IN  first \o SelectSeq(all, Keep)

\* 994-1007  sunRows
sun_rows(w, tz_name, sun_changes) ==
    LET all == [i \in DOMAIN sun_changes |->
                  LET c == sun_changes[i]
                  IN  [timeISO |-> format_local(c.time_utc, tz_name), from |-> c.from_index,
                       to |-> c.to_index, at |-> c.time_utc]]
        Keep(r) == InMonth(w, RowMs(r.timeISO, tz_name))
    IN  SelectSeq(all, Keep)

\* 1009-1039  otherIngressRows before the sort
planet_rows(w, tz_name, eph) ==
    LET PlanetRow(body, from, to, timeISO, at) ==
            [body |-> body, from |-> from, to |-> to, timeISO |-> timeISO, at |-> at]
        Keep(r) == InMonth(w, RowMs(r.timeISO, tz_name))
        Rows(planet_name) ==
            LET changes == eph.ingress[planet_name].out
                lon_val == eph.anchor[planet_name]
            IN  IF changes = <<>>
                THEN <<PlanetRow(planet_name, sign_index(lon_val), sign_index(lon_val),
                                 w.month_start_local, w.month_start_ms)>>
                ELSE SelectSeq([i \in DOMAIN changes |->
                                  LET c == changes[i]
                                  IN  PlanetRow(planet_name, c.from_index, c.to_index,
                                                format_local(c.time_utc, tz_name), c.time_utc)],
                               Keep)
    IN  Flatten([i \in DOMAIN PLANET_INGRESS_NAMES |-> Rows(PLANET_INGRESS_NAMES[i])])

\* 1041-1056  velocityRows before the sort
velocity_rows(w, tz_name, eph) ==
    LET Keep(r) == InMonth(w, RowMs(r.timeISO, tz_name))
        Rows(planet_name) ==
            LET events == eph.velocity[planet_name]
            IN  SelectSeq([k \in DOMAIN events |->
                             [planet |-> planet_name, kind |-> events[k].kind,
                              timeISO |-> format_local(events[k].time_utc, tz_name),
                              speed |-> events[k].speed, at |-> events[k].time_utc]],
                          Keep)
    IN  Flatten([i \in DOMAIN VELOCITY_PLANETS |-> Rows(VELOCITY_PLANETS[i])])

\* 1061-1107  stationRows before the filter; retro_start is None when it is
\* the empty sequence
station_rows(w, tz_name, eph) ==
    LET StationRow(planet, retro_start, end) ==
            [planet |-> planet, state |-> "retrograde",
             startISO |-> format_local(retro_start, tz_name),
             endISO |-> format_local(end, tz_name),
             at |-> retro_start, until |-> end]
        RECURSIVE Loop(_, _, _, _, _)
        Loop(planet, sorted_events, i, retro_start, rows) ==
            IF i > Len(sorted_events)
            THEN [retro_start |-> retro_start, rows |-> rows]
            ELSE LET ev == sorted_events[i]
                 IN  IF ev.kind = "retrograde"
                     THEN Loop(planet, sorted_events, i + 1, <<ev.time_utc>>, rows)
                     ELSE LET rs == IF retro_start = <<>> THEN w.start_utc ELSE retro_start[1]
                          IN  Loop(planet, sorted_events, i + 1, <<>>,
                                   Append(rows, StationRow(planet, rs, ev.time_utc)))
        Rows(planet) ==
            LET events == eph.stations[planet].events
                done == Loop(planet, SortBy(events, "time_utc"), 1,
                             IF eph.stations[planet].initial_retro THEN <<w.start_utc>> ELSE <<>>,
                             <<>>)
                clip == IF w.end_utc < w.month_end_utc THEN w.end_utc
                        ELSE w.month_end_utc
                open == IF done.retro_start # <<>>
                        THEN <<StationRow(planet, done.retro_start[1], clip)>>
                        ELSE <<>>
            IN  IF events = <<>> THEN <<>> ELSE done.rows \o open
    IN  Flatten([i \in DOMAIN STATION_PLANET_NAMES |-> Rows(STATION_PLANET_NAMES[i])])

\* 1128-1135
CombRow(start_win, end_win, planet, orb, tz_name) ==
    [startISO |-> format_local(start_win, tz_name),
     endISO |-> format_local(end_win, tz_name),
     planet |-> planet, orbDeg |-> orb, at |-> start_win, until |-> end_win]
\* 1109-1135  combRows before the filter; line 1126 drops a window when
\* end_ms < month_start_ms or start_ms >= month_end_ms
comb_rows(w, tz_name, eph) ==
    LET Keep(r) == ~(\/ RowMs(r.endISO, tz_name) < w.month_start_ms
                     \/ RowMs(r.startISO, tz_name) >= w.month_end_ms)
        Rows(item) ==
            LET wins == eph.combustion[item[1]]
            IN  SelectSeq([k \in DOMAIN wins |->
                             CombRow(wins[k][1], wins[k][2], item[1], item[2], tz_name)],
                          Keep)
    IN  Flatten([i \in DOMAIN COMBUSTION_ORBS |-> Rows(COMBUSTION_ORBS[i])])

\* 1137-1148  _filter_month(rows, "startISO", "endISO"): a row is kept when
\* start_ms < month_end_ms and (end_ms or month_end_ms) >= month_start_ms;
\* every row here has an endISO
filter_month(w, tz_name, rows) ==
    LET Keep(r) == /\ RowMs(r.startISO, tz_name) < w.month_end_ms
                   /\ RowMs(r.endISO, tz_name) >= w.month_start_ms
    IN  SelectSeq(rows, Keep)

\* 944-1166  the call raises when a scan of _find_sign_changes raised or
\* line 1017 took the sign of a NaN
monthly_record(tz_name, month_start_iso, eph) ==
    LET w == Window(tz_name, month_start_iso)
        raises ==
            \/ eph.sun.raised # "none"
            \/ \E i \in DOMAIN PLANET_INGRESS_NAMES :
                  LET n == PLANET_INGRESS_NAMES[i]
                  IN  \/ eph.ingress[n].raised # "none"
                      \/ eph.ingress[n].out = <<>> /\ ~isfinite(eph.anchor[n])
    IN  IF ~IsoParses(month_start_iso) \/ raises
        THEN [raised |-> "ValueError",
              record |-> [moonMonthlyRows |-> <<>>, sunRows |-> <<>>, otherIngressRows |-> <<>>,
                          stationRows |-> <<>>, combRows |-> <<>>, velocityRows |-> <<>>,
                          swissAvailable |-> FALSE]]
        ELSE [raised |-> "none",
              record |->
                [moonMonthlyRows |-> moon_monthly(w, tz_name, eph.moon_changes, eph.moon_at_start),
                 sunRows |-> sun_rows(w, tz_name, eph.sun.out),
                 otherIngressRows |-> SortBy(planet_rows(w, tz_name, eph), "timeISO"),
                 stationRows |->
                    SortBy(filter_month(w, tz_name, station_rows(w, tz_name, eph)), "startISO"),
                 combRows |->
                    SortBy(filter_month(w, tz_name, comb_rows(w, tz_name, eph)), "startISO"),
                 velocityRows |-> SortBy(velocity_rows(w, tz_name, eph), "timeISO"),
                 swissAvailable |-> TRUE]]

(***************************************************************************)
(* swiss.py: _find_stations (628-714) called with a speed_fn.  A speed     *)
(* signal s holds s.v0 and jumps to changes[i].v at changes[i].at, in      *)
(* units of 1e-6 degree per day; at the instants of s.none speed_fn        *)
(* returns None or a NaN.  The value None is the empty sequence.  Besides  *)
(* the list the code returns, the result carries a log with one entry per  *)
(* station detected at line 672: the station and the list before and       *)
(* after lines 694-707.                                                    *)
(***************************************************************************)
\* 830-840  speed_fn(dt)
SpeedAt(s, t) ==
    IF t \in s.none THEN <<>>
    ELSE LET S == {i \in 1..Len(s.changes) : s.changes[i].at <= t}
         IN  IF S = {} THEN <<s.v0>> ELSE <<s.changes[MaxOf(S)].v>>

\* 695-706  what lines 695-706 make of the list when station ev was found
StationPush(out, ev) ==
    IF out # <<>> /\ ev.time_utc - out[Len(out)].time_utc < Hours(6)
    THEN IF out[Len(out)].kind = ev.kind THEN out
         ELSE Append(SubSeq(out, 1, Len(out) - 1), ev)
    ELSE Append(out, ev)

find_stations(s, start, end, coarse_minutes) ==
    LET step == Minutes(coarse_minutes)
        \* 642-654  velocity_at is per_day / 24; below 1e-6 degree per hour
        \* the sign is 0
        safe_sign(per_day) ==
            IF per_day = <<>> THEN 0
            ELSE IF per_day[1] < 24 /\ per_day[1] > 0 - 24 THEN 0
            ELSE IF per_day[1] > 0 THEN 1 ELSE 0 - 1
        sign_at(t) == safe_sign(SpeedAt(s, t))
        \* 656-662
        RECURSIVE Seed(_, _, _)
        Seed(prev_time, prev_sign, guard) ==
            IF ~(guard < 48 /\ prev_time < end /\ prev_sign = 0)
            THEN [prev_time |-> prev_time, prev_sign |-> prev_sign]
            ELSE LET sg == sign_at(prev_time)
                 IN  Seed(IF sg = 0 THEN Min2(prev_time + step, end) ELSE prev_time,
                          sg, guard + 1)
        \* 676-691
        RECURSIVE Bisect(_, _, _, _)
        Bisect(a, b, sign_a, n) ==
            IF n = 40 \/ b - a <= Seconds(1) THEN b
            ELSE LET mid == (a + b) \div 2
                     mid_sign == sign_at(mid)
                 IN  IF mid_sign = 0 THEN Bisect(mid, b, 0, n + 1)
                     ELSE IF mid_sign = sign_a \/ sign_a = 0
                          THEN Bisect(mid, b, mid_sign, n + 1)
                          ELSE Bisect(a, mid, sign_a, n + 1)
        \* 668-713
        RECURSIVE Loop(_, _, _, _, _)
        Loop(t, prev_time, prev_sign, out, log) ==
            IF ~(t < end) THEN [out |-> out, log |-> log]
            ELSE LET t_next == Min2(t + step, end)
                     curr_sign == sign_at(t_next)
                 IN  IF curr_sign # 0 /\ prev_sign # 0 /\ curr_sign # prev_sign
                     THEN LET b == Bisect(prev_time, t_next, prev_sign, 0)
                              ev == StationEvent(b, IF curr_sign < 0 THEN "retrograde"
                                                    ELSE "direct")
                              pushed == StationPush(out, ev)
                          IN  Loop(t_next, t_next, curr_sign, pushed,
                                   Append(log, [station |-> ev, before |-> out,
                                                after |-> pushed]))
                     ELSE IF curr_sign # 0
                          THEN Loop(t_next, t_next, curr_sign, out, log)
                          ELSE Loop(t_next, prev_time, prev_sign, out, log)
        seed == Seed(start, 0, 0)
    IN  IF seed.prev_sign = 0 THEN [out |-> <<>>, log |-> <<>>]
        ELSE Loop(seed.prev_time, seed.prev_time, seed.prev_sign, <<>>, <<>>)

(***************************************************************************)
(* swiss.py: _planet_lon_fn (819-827) and compute_planetary_timeseries     *)
(* (1169-1199).  sky is what the ephemeris yields: per Swiss Ephemeris     *)
(* body, a scanned function.  PLANET_IDS maps "Rahu" and "Ketu" to         *)
(* TRUE_NODE and every other name to the body of that name.                *)
(***************************************************************************)
\* 819-827  fn(dt) of _planet_lon_fn(name).  NaN + 180.0 is NaN and
\* _mod360 of a NaN is NaN (fmod yields NaN, NaN < 0.0 is false).
planet_lon_fn_Unshifted(name, sky, t) ==
    FnAt(sky[IF name \in {"Rahu", "Ketu"} THEN "TRUE_NODE" ELSE name], t)
planet_lon_fn(name, sky, t) ==
    LET id(n) == IF n \in {"Rahu", "Ketu"} THEN "TRUE_NODE" ELSE n
    IN  IF name = "Ketu"
        THEN LET lon == FnAt(sky[id("Rahu")], t)
             IN  IF isfinite(lon) THEN mod360(lon + 180 * ARCMIN) ELSE NaN
        ELSE FnAt(sky[id(name)], t)

\* 1185  the names compute_planetary_timeseries accepts
KnownPlanet_Any(planet) == TRUE
KnownPlanet(planet) == planet \in PLANET_IDS \/ planet = "Ketu"

\* 203-215  the library's settings after an uncontended _initialise_once()
initialise_once(done, sw) ==
    LET cands == candidate_ephe_paths(sw.env)
        S == {i \in DOMAIN cands : cands[i] \in sw.dirs}
    IN  IF done THEN sw
        ELSE [sw EXCEPT !.sid_mode = "SIDM_RAMAN", !.sid_calls = @ + 1,
                        !.ephe_path = IF S = {} THEN @
                                      ELSE cands[CHOOSE i \in S : \A j \in S : i <= j],
                        !.path_calls = @ + 1]

\* 1183-1199  timestamps are Unix seconds; the instant of timestamp ts is
\* datetime.fromtimestamp(ts, tz=timezone.utc).  evaluated counts the calls
\* of planet_fn.
compute_planetary_timeseries(planet, timestamps, sky) ==
    LET dt(ts) == Seconds(ts - 1672531200)
    IN  IF ~KnownPlanet(planet)
        THEN [raised |-> "ValueError", data |-> <<>>, evaluated |-> 0]
        ELSE IF timestamps # <<>> /\ planet \notin PLANET_IDS
        THEN [raised |-> "KeyError", data |-> <<>>, evaluated |-> 0]
        ELSE [raised |-> "none",
              data |-> [i \in DOMAIN timestamps |->
                          [time |-> timestamps[i],
                           longitude |-> planet_lon_fn(planet, sky, dt(timestamps[i]))]],
              evaluated |-> Len(timestamps)]

\* main.py 376-389  /api/planetary/timeseries: {"ok": True, "data": data},
\* or an HTTPException
TResp(status, body, detail) ==
    Resp("timeseries", NoPayload, NoBatchPayload, status, body, <<>>, NoStats, detail)

(***************************************************************************)
(* swiss.py: _find_combustion (717-748).  A window is the pair of its      *)
(* start and its end; win_start None is the empty sequence.                *)
(***************************************************************************)
\* 223-229  _angdiff and _abs_sep, in arc minutes
angdiff(a, b) ==
    LET d == mod360(a - b)
    IN  IF d > 180 * ARCMIN THEN d - 360 * ARCMIN ELSE d
abs_sep_Signed(a, b) == angdiff(a, b)
abs_sep(a, b) == IF angdiff(a, b) < 0 THEN 0 - angdiff(a, b) ELSE angdiff(a, b)

find_combustion(sun_fn, planet_fn, start, end, orb_deg, coarse_minutes) ==
    LET step == Minutes(coarse_minutes)
        next(t) == Min2(t + step, end + Seconds(1))
        RECURSIVE Loop(_, _, _, _)
        Loop(t, in_comb, win_start, out) ==
            IF ~(t <= end)
            THEN IF in_comb /\ win_start # <<>> THEN Append(out, <<win_start[1], end>>)
                 ELSE out
            ELSE LET sun_lon == FnAt(sun_fn, t)
                     planet_lon == FnAt(planet_fn, t)
                     now_comb == abs_sep(sun_lon, planet_lon) <= orb_deg * ARCMIN
                     \* 738-740
                     entered == in_comb \/ now_comb
                     opened == IF ~in_comb /\ now_comb THEN <<t>> ELSE win_start
                 IN  IF ~(isfinite(sun_lon) /\ isfinite(planet_lon))
                     THEN Loop(next(t), in_comb, win_start, out)
                     \* 741-744
                     ELSE IF entered /\ ~now_comb
                     THEN Loop(next(t), FALSE, <<>>,
                               Append(out, <<IF opened # <<>> THEN opened[1] ELSE t, t>>))
                     ELSE Loop(next(t), entered, opened, out)
    IN  Loop(start, FALSE, <<>>, <<>>)

(***************************************************************************)
(* swiss.py: _velocity_extrema_for_planet (404-455) from the refined       *)
(* hints on.  refined is the list of what _refine_velocity_extremum        *)
(* returned for the hints of one planet: the speed in units of 1e-5        *)
(* degree per day, the empty sequence when it is NaN.  The result carries, *)
(* besides the list the code returns, one log entry per entry merged at    *)
(* lines 438-452.                                                          *)
(***************************************************************************)
velocity_extrema(refined) ==
    LET \* 163, 164
        VELOCITY_TIME_TOL == Minutes(6)
        VELOCITY_VALUE_EPS == 10
        Abs(x) == IF x < 0 THEN 0 - x ELSE x
        \* 420-431
        finite == SelectSeq(refined, LAMBDA e : e.speed # <<>>)
        raw == SortBy([i \in DOMAIN finite |->
                         [time_utc |-> finite[i].time_utc, speed |-> finite[i].speed[1],
                          kind |-> finite[i].kind, curvature |-> finite[i].curvature]],
                      "time_utc")
        \* 437-454
        RECURSIVE Loop(_, _, _)
        Loop(i, deduped, log) ==
            IF i > Len(raw) THEN [out |-> deduped, log |-> log]
            ELSE LET entry == raw[i]
                     last == deduped[Len(deduped)]
                 IN  IF /\ deduped # <<>>
                        /\ Abs(entry.time_utc - last.time_utc) <= VELOCITY_TIME_TOL
                        /\ Abs(last.speed - entry.speed) <= VELOCITY_VALUE_EPS
                     THEN LET kept == IF entry.curvature > last.curvature THEN entry ELSE last
                          IN  Loop(i + 1, [deduped EXCEPT ![Len(deduped)] = kept],
                                   Append(log, [last |-> last, entry |-> entry, kept |-> kept]))
                     ELSE Loop(i + 1, Append(deduped, entry), log)
    IN  Loop(1, <<>>, <<>>)

(***************************************************************************)
(* swiss.py: compute_horizon (843-935), the Moon's rows.  eph is what the  *)
(* ephemeris yields for the call: the exception the scan of the ascendant  *)
(* raised, the result of the pada scan over [start_utc, moon_end] and the  *)
(* Moon's longitude at start_utc.  lagnaRows are left out of the record.   *)
(***************************************************************************)
compute_horizon(tz_name, start_local_iso, moon_days, eph) ==
    LET start_utc == WallToUtc(tz_name, Wall(start_local_iso))
        MoonRow(t, p) ==
            [timeISO |-> format_local(t, tz_name), nakshatra |-> p.nak_idx % 27,
             pada |-> p.pada, at |-> t]
        \* 906-923
        moon_rows ==
            <<MoonRow(start_utc, pada_index_from_lon(eph.moon_at_start))>>
              \o [i \in DOMAIN eph.pada.out |->
                     MoonRow(eph.pada.out[i].time_utc,
                             pada_from_segment_index(eph.pada.out[i].to_index))]
    IN  \* 861, 897, 905: a scan raised, or math.floor took a NaN
        IF \/ eph.lagna_raised # "none" \/ eph.pada.raised # "none"
           \/ ~isfinite(eph.moon_at_start)
        THEN [raised |-> "ValueError", moonRows |-> <<>>,
              start_utc |-> start_utc, moon_end |-> start_utc + Days(moon_days)]
        \* 928
        ELSE [raised |-> "none", moonRows |-> SortBy(moon_rows, "timeISO"),
              start_utc |-> start_utc, moon_end |-> start_utc + Days(moon_days)]

(***************************************************************************)
(* swiss.py: _mod360 and its callers in binary floating point (218-233,    *)
(* 538-555).  A float is the integer number of 2^-FracBits degree it       *)
(* holds; the floats are the integers of at most MantBits significant      *)
(* bits.  Python's float has 53 bits; the arithmetic below is the same     *)
(* round-to-nearest-even arithmetic at a width that can be enumerated.     *)
(***************************************************************************)
Pow2(n) == 2 ^ n

\* the float nearest to n / d (d > 0), ties to the even mantissa: what
\* +, - and / return for an exact result of n / d
Fl(n, d) ==
    LET a == IF n < 0 THEN 0 - n ELSE n
        RECURSIVE Quantum(_)
        Quantum(q) == IF a \div (d * q) < Pow2(MantBits) THEN q ELSE Quantum(2 * q)
        q == Quantum(1)
        lo == a \div (d * q)
        rem == a % (d * q)
        m == IF 2 * rem > d * q \/ (2 * rem = d * q /\ lo % 2 = 1) THEN lo + 1 ELSE lo
    IN  IF n < 0 THEN 0 - m * q ELSE m * q

\* 218-220  _mod360: math.fmod is exact and has the sign of value
mod360_float(value) ==
    LET turn == 360 * Pow2(FracBits)
        r == IF value < 0 THEN 0 - ((0 - value) % turn) ELSE value % turn
    IN  IF r < 0 THEN Fl(r + turn, 1) ELSE r

\* 223-225  _angdiff
angdiff_float(a, b) ==
    LET d == mod360_float(Fl(a - b, 1))
    IN  IF d > 180 * Pow2(FracBits) THEN Fl(d - 360 * Pow2(FracBits), 1) ELSE d

\* 232-233  _sign_index: int(math.floor(_mod360(deg) / 30.0))
sign_index_float(deg) ==
    Fl(mod360_float(deg) * Pow2(FracBits), 30 * Pow2(FracBits)) \div Pow2(FracBits)

\* 548-555  _pada_index_from_lon, with PADA_SEGMENT_DEG of lines 132-133
pada_index_from_lon_float(lon) ==
    LET NAKSHATRA_SEGMENT == Fl(360 * Pow2(FracBits), 27)
        PADA_SEGMENT == Fl(NAKSHATRA_SEGMENT, 4)
        deg == mod360_float(lon)
        segment == Fl(deg * Pow2(FracBits), PADA_SEGMENT)
        floor == segment \div Pow2(FracBits)
        idx == IF floor < 0 THEN floor + 108 ELSE floor
        p == pada_from_segment_index(idx)
    IN  [nak_idx |-> p.nak_idx % 27, pada |-> p.pada]

(***************************************************************************)
(* swiss.py: the loops of the scanners taken one iteration at a time.      *)
(* 261-265  _mid_datetime, written out again at 467-469 and 681-684.       *)
(***************************************************************************)
mid_datetime_Left(a, b) == a
mid_datetime(a, b) == (a + b) \div 2

(***************************************************************************)
(* Specifications.                                                         *)
(***************************************************************************)
\* SpecCache: events_cache used directly
UnitKeys == {CacheKey(1907600, 7287770, "Asia/Kolkata", Iso(2023, 7, 1), ay) :
                ay \in {"lahiri", "tropical"}}

InitCacheSpec ==
    /\ InitClock /\ InitCache /\ InitSvc /\ InitSwissIdle
    /\ InitDB({"unset"}, {FALSE}, {{}})

NextCache ==
    LET UnitData == {OkResult(compute_monthly(1907600, 7287770, "Asia/Kolkata", iso).data) :
                        iso \in {Iso(2023, 7, 1), Iso(2023, 8, 1)}}
    IN  \/ /\ \E k \in UnitKeys : CGet(k)
           /\ UNCHANGED <<swissVars, clockVars, dbVars, svcVars, batch>>
        \/ /\ \E k \in UnitKeys, d \in UnitData : CSet(k, d)
           /\ UNCHANGED <<swissVars, clockVars, dbVars, svcVars, batch>>
        \/ /\ CPrune
           /\ UNCHANGED <<swissVars, clockVars, dbVars, svcVars, batch>>
        \/ /\ Tick
           /\ UNCHANGED <<swissVars, cacheVars, dbVars, svcVars, batch>>
SpecCache == InitCacheSpec /\ [][NextCache]_vars

\* SpecDB: database.py called with the parameters it declares
DbData == {compute_monthly(1907600, 7287770, "Asia/Kolkata", iso).data :
              iso \in {Iso(2023, 7, 1), Iso(2023, 7, 15)}}
DbAyanamsas == {"lahiri", "tropical"}
DbMonths == {Iso(2023, 7, 1), Iso(2023, 7, 15), Iso(2023, 8, 1)}

InitDBSpec ==
    /\ InitClock /\ InitCache /\ InitSvc /\ InitSwissIdle
    /\ InitDB({"unset", "set"}, BOOLEAN, {{}})

NextDB ==
    \/ /\ InitDbCall
       /\ UNCHANGED <<swissVars, clockVars, cacheVars, svcVars, batch>>
    \/ /\ \E lat \in Lats, lon \in Lons, tz \in Tzs, iso \in DbMonths, ay \in DbAyanamsas :
             GetCachedMonthCall(lat, lon, tz, iso, ay)
       /\ UNCHANGED <<swissVars, clockVars, cacheVars, svcVars, batch>>
    \/ /\ \E lat \in Lats, lon \in Lons, tz \in Tzs, iso \in DbMonths,
             data \in DbData, ay \in DbAyanamsas :
             CacheMonthCall(lat, lon, tz, iso, data, ay)
       /\ UNCHANGED <<swissVars, clockVars, cacheVars, svcVars, batch>>
    \/ /\ GetCacheStatsCall
       /\ UNCHANGED <<swissVars, clockVars, cacheVars, svcVars, batch>>
    \/ /\ DbOutage
       /\ UNCHANGED <<swissVars, clockVars, cacheVars, svcVars, batch>>
    \* a second passes between two database calls
    \/ /\ ticks < MaxDbTicks
       /\ now' = now + 1
       /\ ticks' = ticks + 1
       /\ UNCHANGED <<swissVars, cacheVars, dbVars, svcVars, batch>>
SpecDB == InitDBSpec /\ [][NextDB]_vars

\* Spec: the service, the store empty or holding July 2023
Init ==
    /\ InitClock /\ InitCache /\ InitSvc /\ InitSwissIdle
    /\ InitDB({"unset", "set"}, BOOLEAN,
              {{},
               {Row(1, location_hash(1907600, 7287770, "Asia/Kolkata"), Prefix7(Iso(2023, 7, 1)),
                    JsonDumps(compute_monthly(1907600, 7287770, "Asia/Kolkata",
                                              Iso(2023, 7, 1)).data),
                    0)}})

Next ==
    \/ /\ Startup
       /\ UNCHANGED <<swissVars, clockVars, cacheVars, batch>>
    \/ /\ \E p \in SvcPayloads : MonthlyRequest(p)
       /\ UNCHANGED <<swissVars, clockVars, dbVars, batch>>
    \/ /\ \E p \in SvcPayloads : MonthlyFinish(p)
       /\ UNCHANGED <<swissVars, clockVars, dbVars, batch>>
    \/ /\ \E bp \in SvcBatchPayloads : BatchRequest(bp)
       /\ UNCHANGED <<swissVars, clockVars>>
    \/ /\ StatsRequest
       /\ UNCHANGED <<swissVars, clockVars, cacheVars, batch>>
    \/ /\ DbOutage
       /\ UNCHANGED <<swissVars, clockVars, cacheVars, svcVars, batch>>
    \/ /\ Tick
       /\ UNCHANGED <<swissVars, cacheVars, dbVars, svcVars, batch>>
Spec == Init /\ [][Next]_vars

\* SpecBatchBody: the computation phase; the first request may bring a long
\* work list, the others a short one
BodyPayloads(b) ==
    LET ShortLists ==
            {<<m>> : m \in SvcMonths}
              \cup {<<Iso(2023, 13, 1), Iso(2023, 7, 1)>>, <<Iso(2023, 7, 1), Iso(2023, 7, 1)>>}
        LongList == [i \in 1..MaxTasks |-> Iso(2023, i, 1)]
    IN  {BatchPayload(1907600, 7287770, "Asia/Kolkata", isos, "lahiri") :
            isos \in IF b = 1 THEN ShortLists \cup {LongList} ELSE ShortLists}

\* the service is up, with or without a persistent store
InitBody ==
    /\ InitClock /\ InitCache /\ InitSwissIdle
    /\ started = "yes"
    /\ inflight = [p \in SvcPayloads |-> 0]
    /\ resp = NoResp
    /\ batch = [b \in BatchIds |-> IdleBatch]
    /\ dbUrl \in {"unset", "set"}
    /\ dbUp = TRUE
    /\ pool = (dbUrl = "set")
    /\ table = {}
    /\ nextId = 1
    /\ dbOut = NoDbOut
    /\ writtenFor = <<>>

NextBody ==
    \/ /\ \E b \in BatchIds : \E bp \in BodyPayloads(b) : EnterCompute(b, bp)
       /\ UNCHANGED <<swissVars, clockVars, cacheVars, dbVars, svcVars>>
    \/ /\ \E b \in BatchIds, i \in 1..(MaxTasks + 1) : TaskStart(b, i)
       /\ UNCHANGED <<swissVars, clockVars, cacheVars, dbVars, svcVars>>
    \/ /\ \E b \in BatchIds, i \in 1..(MaxTasks + 1) : TaskFinish(b, i)
       /\ UNCHANGED <<swissVars, clockVars, svcVars>>
    \/ /\ \E b \in BatchIds : Gathered(b)
       /\ UNCHANGED <<swissVars, clockVars, cacheVars, dbVars, started, inflight>>
SpecBatchBody == InitBody /\ [][NextBody]_vars

\* SpecInitOnce: threads calling _initialise_once, with or without
\* $SWISS_EPHE_PATH and any set of the candidate directories present
svcAll == <<clockVars, cacheVars, dbVars, svcVars, batch>>

InitInitOnce ==
    /\ InitClock /\ InitCache /\ InitSvc /\ InitFn
    /\ InitDB({"unset"}, {FALSE}, {{}})
    /\ InitOnce(BOOLEAN,
                {{}, {"/usr/share/swisseph"}, {"$SWISS_EPHE_PATH", "/usr/share/swisseph"},
                 {"swisseph/ephe", "vedic-ui/node_modules/swisseph/ephe"}})

\* 203-215  one statement of one thread
NextInitOnce ==
    LET Goto(t, at) == pc' = [pc EXCEPT ![t].at = at]
        Return(t) == pc' = [pc EXCEPT ![t] = [at |-> "idle", returns |-> pc[t].returns + 1]]
    IN  \* a thread enters _initialise_once()
        \/ /\ \E t \in Threads :
                 /\ pc[t].at = "idle"
                 /\ pc[t].returns < MaxCalls
                 /\ Goto(t, "205")
           /\ UNCHANGED <<initialised, initLock, swe, svcAll, fnVars>>
        \* 205-206  if _INITIALISED: return
        \/ /\ \E t \in Threads :
                 /\ pc[t].at = "205"
                 /\ IF initialised THEN Return(t) ELSE Goto(t, "207")
           /\ UNCHANGED <<initialised, initLock, swe, svcAll, fnVars>>
        \* 207  with _INIT_LOCK:  (blocks while another thread holds the lock)
        \/ /\ \E t \in Threads :
                 /\ pc[t].at = "207"
                 /\ initLock = 0
                 /\ initLock' = t
                 /\ Goto(t, "208")
           /\ UNCHANGED <<initialised, swe, svcAll, fnVars>>
        \* 208-209  if _INITIALISED: return   (leaving the with block releases the lock)
        \/ /\ \E t \in Threads :
                 /\ pc[t].at = "208"
                 /\ IF SecondCheck(initialised)
                    THEN initLock' = 0 /\ Return(t)
                    ELSE Goto(t, "210") /\ UNCHANGED initLock
           /\ UNCHANGED <<initialised, swe, svcAll, fnVars>>
        \* 210  swe.set_sid_mode(swe.SIDM_RAMAN, 0, 0)
        \/ /\ \E t \in Threads :
                 /\ pc[t].at = "210"
                 /\ Goto(t, "211")
           /\ swe' = [swe EXCEPT !.sid_mode = "SIDM_RAMAN", !.sid_calls = @ + 1]
           /\ UNCHANGED <<initialised, initLock, svcAll, fnVars>>
        \* 211-214  for candidate in ...: if candidate.is_dir(): ...; break -- the
        \* first candidate that is a directory becomes the ephemeris path
        \/ /\ \E t \in Threads :
                 /\ pc[t].at = "211"
                 /\ Goto(t, "215")
           /\ LET cands == candidate_ephe_paths(swe.env)
                  S == {i \in DOMAIN cands : cands[i] \in swe.dirs}
              IN  swe' = [swe EXCEPT !.ephe_path = IF S = {} THEN @
                                                   ELSE cands[CHOOSE i \in S : \A j \in S : i <= j],
                                     !.path_calls = @ + 1]
           /\ UNCHANGED <<initialised, initLock, svcAll, fnVars>>
        \* 215  _INITIALISED = True
        \/ /\ \E t \in Threads :
                 /\ pc[t].at = "215"
                 /\ Goto(t, "exit")
           /\ initialised' = TRUE
           /\ UNCHANGED <<initLock, swe, svcAll, fnVars>>
        \* end of the with block: the lock is released and the call returns
        \/ /\ \E t \in Threads :
                 /\ pc[t].at = "exit"
                 /\ Return(t)
           /\ initLock' = 0
           /\ UNCHANGED <<initialised, swe, svcAll, fnVars>>
SpecInitOnce == InitInitOnce /\ [][NextInitOnce]_vars

\* SpecScan: the two boundary scanners over a sampled function, the coarse
\* step one minute; the function jumps between three longitudes and the
\* ephemeris fails at the instants of nan.  The station scanner and the
\* combustion scanner run with the coarse step of compute_monthly, an hour.
InitScan ==
    LET lon == <<29 * ARCMIN + 50, 30 * ARCMIN + 10, 60 * ARCMIN + 10>>
        Jump(at, to) == [at |-> at, lon |-> to]
        jumps ==
            {<<>>,
             <<Jump(500, lon[2])>>,
             <<Jump(940, lon[2]), Jump(980, lon[3])>>,
             <<Jump(1000, lon[2]), Jump(1040, lon[3])>>,
             <<Jump(1000, lon[2]), Jump(1040, lon[1])>>,
             <<Jump(500, lon[2]), Jump(1500, lon[3])>>,
             <<Jump(500, lon[2]), Jump(1500, lon[1])>>,
             <<Jump(1000, lon[2]), Jump(1040, lon[3]), Jump(2500, lon[2])>>}
        nans == {{}, {0}, {Minutes(1)}, {Minutes(1) + Minutes(1) \div 2}, {526}, {720},
                 0..Minutes(MaxSteps)}
        ends == {Minutes(MaxSteps - 1), Minutes(MaxSteps) - Seconds(30), Minutes(MaxSteps)}
        \* speeds of a degree a day forward, half a degree a day backward and
        \* 1e-5 degree a day, over twelve hours scanned by the hour
        To(at, v) == [at |-> at, v |-> v]
        fwd == 1000000
        back == 0 - 500000
        speeds ==
            {[v0 |-> fwd, changes |-> <<>>],
             [v0 |-> fwd, changes |-> <<To(Hours(2) + Minutes(30), back)>>],
             [v0 |-> fwd, changes |-> <<To(Hours(1) + Minutes(30), back),
                                        To(Hours(9) + Minutes(30), fwd)>>],
             [v0 |-> back, changes |-> <<To(Minutes(30), fwd),
                                         To(Hours(8) + Minutes(30), back),
                                         To(Hours(9) + Minutes(30), fwd)>>],
             [v0 |-> fwd, changes |-> <<To(Hours(2) + Minutes(30), 10),
                                        To(Hours(3) + Minutes(30), back)>>]}
        nones == {{}, {0, Hours(1)}, {Hours(3)}, {Hours(2) + Minutes(30)}}
        \* the sun at 355 degrees and a body that moves between 5, 9 and 341
        \* degrees (within an orb of 14), 10, 40 and 175 degrees, over six
        \* hours scanned by the hour
        Body(lon0, changes) == [lon0 |-> lon0 * ARCMIN, changes |-> changes]
        bodies ==
            {Body(40, <<>>),
             Body(5, <<Jump(Hours(2) + Minutes(30), 40 * ARCMIN)>>),
             Body(40, <<Jump(Hours(1) + Minutes(30), 341 * ARCMIN)>>),
             Body(40, <<Jump(Hours(1) + Minutes(30), 5 * ARCMIN),
                        Jump(Hours(3) + Minutes(30), 40 * ARCMIN),
                        Jump(Hours(4) + Minutes(30), 341 * ARCMIN)>>),
             Body(175, <<Jump(Minutes(30), 9 * ARCMIN),
                         Jump(Hours(2) + Minutes(30), 10 * ARCMIN)>>)}
        fails == {{}, {0}, {Hours(3)}, {Hours(2), Hours(4)}}
        \* what the refinement of up to MaxHints hints of one planet yields
        Refined(t, speed, kind, curvature) ==
            [time_utc |-> t, speed |-> speed, kind |-> kind, curvature |-> curvature]
        extrema ==
            {Refined(0, <<0>>, "min", 5), Refined(Minutes(5), <<15>>, "max", 3),
             Refined(Minutes(5) + Seconds(30), <<8>>, "max", 4),
             Refined(Minutes(12), <<8>>, "min", 4), Refined(Minutes(3), <<>>, "max", 0)}
    IN  /\ InitClock /\ InitCache /\ InitSvc
        /\ InitDB({"unset"}, {FALSE}, {{}})
        /\ InitOnce({FALSE}, {{}})
        /\ call \in {[fn |-> "scan", f |-> [lon0 |-> lon[1], changes |-> j, nan |-> n],
                      start |-> 0, end |-> e, coarse_minutes |-> 1] :
                        j \in jumps, n \in nans, e \in ends}
                     \cup
                    {[fn |-> "stations", s |-> [v0 |-> v.v0, changes |-> v.changes, none |-> n],
                      start |-> 0, end |-> e, coarse_minutes |-> 60] :
                        v \in speeds, n \in nones, e \in {Hours(12), Hours(12) - Minutes(30)}}
                     \cup
                    {[fn |-> "combustion",
                      sun_fn |-> [lon0 |-> 355 * ARCMIN, changes |-> <<>>, nan |-> sn],
                      planet_fn |-> [lon0 |-> b.lon0, changes |-> b.changes, nan |-> n],
                      start |-> 0, end |-> e, orb_deg |-> 14, coarse_minutes |-> 60] :
                        b \in bodies, n \in fails, sn \in {{}, {Hours(1)}},
                        e \in {Hours(5), Hours(6) - Minutes(30), Hours(6)}}
                     \cup
                    {[fn |-> "extrema", refined |-> r] :
                        r \in UNION {[1..n -> extrema] : n \in 0..MaxHints}}
                     \cup
                    \* _mod360 and its callers on floats at and next to 0, 30,
                    \* 180 and 360 degrees, either side of zero
                    {[fn |-> "angles", x |-> x, a |-> a, b |-> b] :
                        x \in {v \in {d * Pow2(FracBits) + k :
                                         d \in {0 - 720, 0 - 360, 0 - 30, 0, 30, 180, 360, 720},
                                         k \in {0 - 512, 0 - 2, 0 - 1, 0, 1, 2, 512}} :
                                  Fl(v, 1) = v},
                        a \in {d * Pow2(FracBits) : d \in {0, 10, 180, 350}} \cup {1},
                        b \in {d * Pow2(FracBits) : d \in {0, 10, 190, 350}} \cup {2}}
        /\ ret = NoRet

NextScan ==
    \/ /\ call.fn = "angles"
       /\ ret' = [fn |-> "mod360", mod360 |-> mod360_float(call.x),
                  angdiff |-> angdiff_float(call.a, call.b),
                  sign_index |-> sign_index_float(call.x),
                  pada_index |-> pada_index_from_lon_float(call.x)]
       /\ UNCHANGED <<svcAll, initVars, call>>
    \/ /\ call.fn = "scan"
       /\ LET r == find_sign_changes(call.f, call.start, call.end, call.coarse_minutes)
          IN  ret' = [fn |-> "find_sign_changes", raised |-> r.raised, out |-> r.out]
       /\ UNCHANGED <<svcAll, initVars, call>>
    \/ /\ call.fn = "scan"
       /\ LET r == find_segment_changes(call.f, call.start, call.end,
                                        PADA_SEGMENT_DEG, call.coarse_minutes)
          IN  ret' = [fn |-> "find_segment_changes", raised |-> r.raised, out |-> r.out]
       /\ UNCHANGED <<svcAll, initVars, call>>
    \/ /\ call.fn = "stations"
       /\ LET r == find_stations(call.s, call.start, call.end, call.coarse_minutes)
          IN  ret' = [fn |-> "find_stations", out |-> r.out, log |-> r.log]
       /\ UNCHANGED <<svcAll, initVars, call>>
    \/ /\ call.fn = "extrema"
       /\ LET r == velocity_extrema(call.refined)
          IN  ret' = [fn |-> "velocity_extrema_for_planet", out |-> r.out, log |-> r.log]
       /\ UNCHANGED <<svcAll, initVars, call>>
    \/ /\ call.fn = "combustion"
       /\ ret' = [fn |-> "find_combustion",
                  out |-> find_combustion(call.sun_fn, call.planet_fn, call.start, call.end,
                                          call.orb_deg, call.coarse_minutes)]
       /\ UNCHANGED <<svcAll, initVars, call>>
SpecScan == InitScan /\ [][NextScan]_vars

\* SpecMonthly: compute_monthly called for a month, a zone and what the
\* ephemeris yields over the scan window w of that call.  The instants worth
\* an event are the two ends of the month, half a second and an hour off
\* them, and two instants twenty minutes apart in the night of the fifth day
\* (in America/New_York in November 2023, the hour before the clock is set
\* back and the hour after).  Either the point events vary or the windows do.
Ephs(w) ==
    LET Quiet == Scanned("none", <<>>)
        FiniteLon == 100 * ARCMIN
        Night1 == w.month_start_ms + Days(4) + Hours(1) + Minutes(50)
        Night2 == Night1 + Minutes(20)
        MoonChoices ==
            {<<>>,
             <<SignChange(w.month_start_ms - 8, 3, 4)>>,
             <<SignChange(w.month_start_ms, 3, 4), SignChange(w.month_end_ms - 8, 4, 5)>>,
             <<SignChange(w.start_utc + Hours(1), 3, 4), SignChange(w.month_end_ms, 4, 5)>>}
        SunChoices ==
            {Quiet, Scanned("none", <<SignChange(w.month_start_ms + Hours(6), 6, 7)>>),
             Scanned("ValueError", <<>>)}
        MercuryChoices ==
            {Quiet, Scanned("none", <<SignChange(Night1, 6, 7)>>),
             Scanned("none", <<SignChange(w.month_end_ms, 6, 7)>>)}
        VenusChoices == {Quiet, Scanned("none", <<SignChange(Night2, 7, 8)>>)}
        VelocityChoices ==
            {<<<<>>, <<>>>>,
             <<<<VelocityEntry(Night2, 14, "max"),
                 VelocityEntry(w.month_end_ms + Hours(1), 12, "min")>>,
               <<>>>>,
             <<<<VelocityEntry(Night2, 14, "max")>>, <<VelocityEntry(Night1, 1, "min")>>>>}
        NoStations == [events |-> <<>>, initial_retro |-> FALSE]
        StationChoices ==
            {NoStations,
             [events |-> <<StationEvent(w.start_utc + Days(1), "retrograde"),
                           StationEvent(w.month_start_ms, "direct")>>, initial_retro |-> FALSE],
             [events |-> <<StationEvent(w.start_utc + Days(1), "retrograde"),
                           StationEvent(w.month_start_ms - Hours(1), "direct")>>,
              initial_retro |-> FALSE],
             [events |-> <<StationEvent(w.month_start_ms + Hours(6), "retrograde")>>,
              initial_retro |-> FALSE],
             [events |-> <<StationEvent(w.month_end_ms + Hours(1), "direct")>>,
              initial_retro |-> TRUE],
             [events |-> <<StationEvent(w.start_utc + Days(1), "retrograde")>>,
              initial_retro |-> FALSE],
             \* retrograde from start_utc to end_utc: no station to find
             [events |-> <<>>, initial_retro |-> TRUE]}
        MercuryCombChoices ==
            {<<>>,
             <<<<w.month_start_ms - Hours(2), w.month_start_ms>>>>,
             <<<<w.month_start_ms - Hours(2), w.month_start_ms - Hours(1)>>,
               <<w.month_end_ms - Hours(1), w.month_end_ms + Hours(1)>>>>,
             <<<<w.month_end_ms, w.month_end_ms + Hours(1)>>>>}
        VenusCombChoices ==
            {<<>>, <<<<w.month_start_ms + Hours(6), w.month_start_ms + Hours(7)>>>>}
        Eph(moon, moon0, sun, mercury, venus, anchor, vel, station, combM, combV) ==
            [moon_changes |-> moon, moon_at_start |-> moon0, sun |-> sun,
             ingress |-> [n \in PLANET_IDS |->
                            IF n = "Mercury" THEN mercury ELSE IF n = "Venus" THEN venus ELSE Quiet],
             anchor |-> [n \in PLANET_IDS |-> IF n = "Mercury" THEN anchor ELSE FiniteLon],
             velocity |-> [n \in PLANET_IDS |->
                            IF n = "Moon" THEN vel[1] ELSE IF n = "Mercury" THEN vel[2] ELSE <<>>],
             stations |-> [n \in PLANET_IDS |-> IF n = "Mercury" THEN station ELSE NoStations],
             combustion |-> [n \in PLANET_IDS |->
                            IF n = "Mercury" THEN combM ELSE IF n = "Venus" THEN combV ELSE <<>>]]
    IN  {Eph(moon, moon0, sun, mercury, venus, anchor, vel, NoStations, <<>>, <<>>) :
            moon \in MoonChoices, moon0 \in {FiniteLon, NaN}, sun \in SunChoices,
            mercury \in MercuryChoices, venus \in VenusChoices,
            anchor \in {FiniteLon, NaN}, vel \in VelocityChoices}
          \cup
        {Eph(<<>>, FiniteLon, Quiet, Quiet, Quiet, FiniteLon, <<<<>>, <<>>>>, station, combM, combV) :
            station \in StationChoices, combM \in MercuryCombChoices,
            combV \in VenusCombChoices}

InitMonthly ==
    /\ InitClock /\ InitCache /\ InitSvc
    /\ InitDB({"unset"}, {FALSE}, {{}})
    /\ InitOnce({FALSE}, {{}})
    /\ \E tz_name \in Tzs,
          iso \in {Local(2023, 11, 1, 0), Local(2023, 7, 1, 0), Local(2023, 7, 15, 0),
                   Local(2023, 1, 31, 37800), Local(2023, 13, 1, 0)} :
          \/ \E eph \in Ephs(Window(tz_name, iso)) :
                call = [fn |-> "compute_monthly", tz_name |-> tz_name,
                        month_start_iso |-> iso, eph |-> eph]
          \* compute_horizon from 2023-07-01 00:00 or 2023-11-05 01:50 local,
          \* for a day; the Moon enters a pada 20 minutes and 7 hours later
          \/ \E start \in {Local(2023, 7, 1, 0), Local(2023, 11, 5, 6600)},
                lagna \in {"none", "ValueError"}, moon0 \in {2050, NaN} :
                LET t0 == WallToUtc(tz_name, Wall(start))
                IN  \E pada \in {Scanned("none", <<>>), Scanned("ValueError", <<>>),
                                  Scanned("none", <<SignChange(t0 + Minutes(20), 10, 11)>>),
                                  Scanned("none", <<SignChange(t0 + Minutes(20), 10, 11),
                                                    SignChange(t0 + Hours(7), 11, 12)>>)} :
                       call = [fn |-> "compute_horizon", tz_name |-> tz_name,
                               start_local_iso |-> start, moon_days |-> 1,
                               eph |-> [lagna_raised |-> lagna, pada |-> pada,
                                        moon_at_start |-> moon0]]
          \* _add_month of a date of a common, a leap or a century year
          \/ \E y \in {1900, 2000, 2023, 2024}, m \in 1..12, d \in {1, 28, 29, 30, 31},
                sod \in {0, 37800}, k \in {0 - 25, 0 - 13, 0 - 12, 0 - 1, 0, 1, 11, 12, 13, 14} :
                /\ IsoParses(Iso(y, m, d))
                /\ call = [fn |-> "add_month", dt |-> Local(y, m, d, sod), months |-> k]
    /\ ret = NoRet

\* the call returns or raises; window is what lines 945-954 computed
NextMonthly ==
    \/ /\ call.fn = "compute_monthly"
       /\ ret.fn = "none"
       /\ LET r == monthly_record(call.tz_name, call.month_start_iso, call.eph)
          IN  ret' = [fn |-> "compute_monthly", raised |-> r.raised, record |-> r.record,
                      window |-> Window(call.tz_name, call.month_start_iso)]
       /\ UNCHANGED <<svcAll, initVars, call>>
    \/ /\ call.fn = "add_month"
       /\ ret.fn = "none"
       /\ ret' = [fn |-> "add_month", value |-> add_month(call.dt, call.months)]
       /\ UNCHANGED <<svcAll, initVars, call>>
    \/ /\ call.fn = "compute_horizon"
       /\ ret.fn = "none"
       /\ LET r == compute_horizon(call.tz_name, call.start_local_iso, call.moon_days,
                                  call.eph)
          IN  ret' = [fn |-> "compute_horizon", raised |-> r.raised,
                      moonRows |-> r.moonRows, start_utc |-> r.start_utc,
                      moon_end |-> r.moon_end]
       /\ UNCHANGED <<svcAll, initVars, call>>
SpecMonthly == InitMonthly /\ [][NextMonthly]_vars

\* SpecSeries: /api/planetary/timeseries called with a body name and a list
\* of timestamps around 2023-01-01T00:00:00Z, over a node that moves from
\* one longitude to another and an ephemeris that fails at some instants
InitSeries ==
    LET t0 == 1672531200
        lists == {<<>>, <<t0>>, <<t0 + 60, t0>>, <<t0, t0 + 3600, t0>>}
        nodes == {[lon0 |-> 100 * ARCMIN, changes |-> <<>>],
                  [lon0 |-> 200 * ARCMIN,
                   changes |-> <<[at |-> Seconds(30), lon |-> 350 * ARCMIN + 30]>>],
                  [lon0 |-> 180 * ARCMIN,
                   changes |-> <<[at |-> Seconds(60), lon |-> 179 * ARCMIN + 59]>>]}
        nans == {{}, {0}, {Seconds(60), Seconds(3600)}}
        Sky(node, nan) ==
            [b \in (PLANET_IDS \ {"Rahu", "Ketu"}) \cup {"TRUE_NODE"} |->
                IF b = "TRUE_NODE"
                THEN [lon0 |-> node.lon0, changes |-> node.changes, nan |-> nan]
                ELSE [lon0 |-> 280 * ARCMIN, changes |-> <<>>, nan |-> nan]]
    IN  /\ InitClock /\ InitCache /\ InitSvc
        /\ InitDB({"unset"}, {FALSE}, {{}})
        /\ InitOnce({FALSE}, {{}, {"/usr/share/swisseph"}})
        /\ call \in {[fn |-> "timeseries", planet |-> p, timestamps |-> ts,
                      sky |-> Sky(node, nan)] :
                        p \in {"Rahu", "Ketu", "Sun", "Vulcan", "ketu"},
                        ts \in lists, node \in nodes, nan \in nans}
        /\ ret = NoRet

\* the handler runs compute_planetary_timeseries in a worker thread and
\* answers with its list, or with status 400 on a ValueError and 500 on any
\* other exception
NextSeries ==
    /\ call.fn = "timeseries"
    /\ ret.fn = "none"
    /\ LET r == compute_planetary_timeseries(call.planet, call.timestamps, call.sky)
       IN  /\ ret' = [fn |-> "compute_planetary_timeseries", raised |-> r.raised,
                      data |-> r.data, evaluated |-> r.evaluated]
           /\ resp' = IF r.raised = "ValueError" THEN TResp(400, {}, r.raised)
                      ELSE IF r.raised # "none" THEN TResp(500, {}, r.raised)
                      ELSE TResp(200, {[ok |-> TRUE, data |-> r.data]}, "")
    /\ initialised' = TRUE
    /\ swe' = initialise_once(initialised, swe)
    /\ UNCHANGED <<clockVars, cacheVars, dbVars, started, inflight, batch, initLock, pc, call>>
SpecSeries == InitSeries /\ [][NextSeries]_vars

\* SpecLoops: one call of a scanner, a step for each iteration of its
\* loops.  ret is the frame of the running call: at names the loop it is
\* in, n counts the halvings of a counted bisection.  The scanned function
\* jumps between three longitudes (or crosses 15 degrees), fails at single
\* samples, at midpoints of the bisection or everywhere; the window is
\* empty, a whole number of coarse steps or not.
InitLoops ==
    LET lon == <<29 * ARCMIN + 50, 30 * ARCMIN + 10, 60 * ARCMIN + 10>>
        Jump(at, to) == [at |-> at, lon |-> to]
        fns == {[lon0 |-> l, changes |-> j, nan |-> n] :
                  l \in {lon[1], 10 * ARCMIN},
                  j \in {<<>>, <<Jump(500, lon[2])>>,
                         <<Jump(1000, lon[2]), Jump(1040, lon[3])>>,
                         <<Jump(500, lon[2]), Jump(1500, lon[1])>>,
                         <<Jump(700, 15 * ARCMIN), Jump(1700, 10 * ARCMIN)>>},
                  n \in {{}, {0}, {480}, {720}, {Minutes(1)}, {240, 1440},
                         0..Minutes(3)}}
        To(at, v) == [at |-> at, v |-> v]
        speeds == {[v0 |-> 1000000, changes |-> <<>>, none |-> n] : n \in {{}, {0}}}
                    \cup
                  {[v0 |-> v, changes |-> <<To(Hours(1) + Minutes(30), 0 - v),
                                            To(Hours(3) + Minutes(30), 10),
                                            To(Hours(4) + Minutes(30), v)>>,
                    none |-> n] :
                      v \in {1000000, 0 - 500000},
                      n \in {{}, {0, Hours(1)}, {Hours(1) + Minutes(15)}, 0..Hours(6)}}
        Call(fn, end, coarse_minutes) ==
            [fn |-> fn, start |-> 0, end |-> end, coarse_minutes |-> coarse_minutes]
    IN  /\ InitClock /\ InitCache /\ InitSvc
        /\ InitDB({"unset"}, {FALSE}, {{}})
        /\ InitOnce({FALSE}, {{}})
        /\ call \in {[fn |-> fn, f |-> f, start |-> 0, end |-> e, target_deg |-> 15 * ARCMIN,
                      coarse_minutes |-> m] :
                        fn \in {"find_sign_changes", "find_segment_changes",
                                "find_degree_hit"},
                        f \in fns, e \in {0, Minutes(2), Minutes(3) - Seconds(30)},
                        m \in {1, 2}}
                     \cup
                    {[fn |-> "find_stations", s |-> s, start |-> 0, end |-> e,
                      coarse_minutes |-> 60] : s \in speeds, e \in {0, Hours(6) - Minutes(30)}}
                     \cup
                    {Call(fn, e, m) :
                        fn \in {"find_combustion", "velocity_brackets_for_planet"},
                        e \in {0, Minutes(90), Hours(3)}, m \in {1, 60}}
        /\ ret = NoRet

NextLoops ==
    LET c == call
        r == ret
        d == Minutes(c.coarse_minutes)
        Done == [fn |-> c.fn, at |-> "done"]
        wide(a, b) == b - a > Seconds(1)
        fin(t) == isfinite(FnAt(c.f, t))
        Loop(t, prev, last) ==
            [fn |-> c.fn, at |-> "loop", t |-> t, prev_index |-> prev, last_pushed |-> last]
        \* 492-505, 570-583
        Seed(idx(_)) ==
            IF r.fn = "none" THEN [fn |-> c.fn, at |-> "seed", t |-> c.start, guard |-> 0]
            ELSE IF ~(r.guard < 10 /\ r.t <= c.end) THEN Done
            ELSE IF fin(r.t) THEN Loop(r.t, idx(r.t), <<>>)
            ELSE [r EXCEPT !.t = Min2(r.t + d, c.end), !.guard = @ + 1]
        \* 481-535 and _refine_boundary, 458-478; _sign_index of a NaN raises
        sign_changes ==
            LET idx(t) == sign_index(FnAt(c.f, t))
                t_next == Min2(r.t + d, c.end)
                \* 516-533 with the instant _refine_boundary returned
                Refined(exact) ==
                    IF /\ fin(exact - Seconds(1)) /\ fin(exact + Seconds(1))
                       /\ HysteresisOk(idx(exact - Seconds(1)), idx(exact + Seconds(1)),
                                       r.prev_index, idx(t_next))
                       /\ NotDuplicate(r.last_pushed, exact)
                    THEN Loop(t_next, idx(t_next), <<exact>>)
                    ELSE Loop(t_next, r.prev_index, r.last_pushed)
            IN  IF r.fn = "none" \/ r.at = "seed" THEN Seed(idx)
                ELSE IF r.at = "loop"
                THEN IF ~(r.t < c.end) THEN Done
                     ELSE IF ~fin(t_next) \/ idx(t_next) = r.prev_index
                          THEN [r EXCEPT !.t = t_next]
                     ELSE IF ~fin(r.t) THEN Done
                     ELSE IF idx(r.t) = idx(t_next) THEN Refined(t_next)
                     ELSE [fn |-> c.fn, at |-> "refine", t |-> r.t,
                           prev_index |-> r.prev_index, last_pushed |-> r.last_pushed,
                           a |-> r.t, b |-> t_next, s_left |-> idx(r.t)]
                ELSE IF ~wide(r.a, r.b) THEN Refined(r.b)
                     ELSE LET mid == mid_datetime(r.a, r.b)
                          IN  IF ~fin(mid) THEN Done
                              ELSE IF idx(mid) = r.s_left THEN [r EXCEPT !.a = mid]
                              ELSE [r EXCEPT !.b = mid]
        \* 558-618
        segment_changes ==
            LET idx(t) == segment_index(FnAt(c.f, t), PADA_SEGMENT_DEG)
                t_next == Min2(r.t + d, c.end)
            IN  IF r.fn = "none" \/ r.at = "seed" THEN Seed(idx)
                ELSE IF r.at = "loop"
                THEN IF ~(r.t < c.end) THEN Done
                     ELSE IF ~fin(t_next) \/ idx(t_next) = r.prev_index
                          THEN [r EXCEPT !.t = t_next]
                     ELSE [fn |-> c.fn, at |-> "bisect", t |-> r.t,
                           prev_index |-> r.prev_index, last_pushed |-> r.last_pushed,
                           left |-> r.t, right |-> t_next, next_index |-> idx(t_next),
                           n |-> 0]
                ELSE IF r.n = 60 \/ ~wide(r.left, r.right)
                     THEN IF NotDuplicate(r.last_pushed, r.right)
                          THEN Loop(r.right, r.next_index, <<r.right>>)
                          ELSE Loop(t_next, r.prev_index, r.last_pushed)
                     ELSE LET mid == mid_datetime(r.left, r.right)
                          IN  IF ~fin(mid) \/ idx(mid) = r.prev_index
                              THEN [r EXCEPT !.left = mid, !.n = @ + 1]
                              ELSE [r EXCEPT !.right = mid, !.next_index = idx(mid),
                                             !.n = @ + 1]
        \* 628-714
        stations ==
            LET safe_sign(per_day) ==
                    IF per_day = <<>> THEN 0
                    ELSE IF per_day[1] < 24 /\ per_day[1] > 0 - 24 THEN 0
                    ELSE IF per_day[1] > 0 THEN 1 ELSE 0 - 1
                sign_at(t) == safe_sign(SpeedAt(c.s, t))
                t_next == Min2(r.t + d, c.end)
                Scan(t, prev_time, prev_sign) ==
                    [fn |-> c.fn, at |-> "loop", t |-> t, prev_time |-> prev_time,
                     prev_sign |-> prev_sign]
            IN  IF r.fn = "none"
                THEN [fn |-> c.fn, at |-> "seed", prev_time |-> c.start, prev_sign |-> 0,
                      guard |-> 0]
                ELSE IF r.at = "seed"
                THEN IF r.guard < 48 /\ r.prev_time < c.end /\ r.prev_sign = 0
                     THEN LET sg == sign_at(r.prev_time)
                          IN  [r EXCEPT !.prev_time = IF sg = 0 THEN Min2(@ + d, c.end) ELSE @,
                                        !.prev_sign = sg, !.guard = @ + 1]
                     ELSE IF r.prev_sign = 0 THEN Done
                     ELSE Scan(r.prev_time, r.prev_time, r.prev_sign)
                ELSE IF r.at = "loop"
                THEN IF ~(r.t < c.end) THEN Done
                     ELSE IF /\ sign_at(t_next) # 0 /\ r.prev_sign # 0
                             /\ sign_at(t_next) # r.prev_sign
                          THEN [fn |-> c.fn, at |-> "bisect", t |-> r.t, a |-> r.prev_time,
                                b |-> t_next, sign_a |-> r.prev_sign, n |-> 0]
                     ELSE IF sign_at(t_next) # 0 THEN Scan(t_next, t_next, sign_at(t_next))
                     ELSE [r EXCEPT !.t = t_next]
                ELSE IF r.n = 40 \/ ~wide(r.a, r.b)
                     THEN Scan(t_next, t_next, sign_at(t_next))
                     ELSE LET mid == mid_datetime(r.a, r.b)
                          IN  IF sign_at(mid) = 0
                              THEN [r EXCEPT !.a = mid, !.sign_a = 0, !.n = @ + 1]
                              ELSE IF sign_at(mid) = r.sign_a \/ r.sign_a = 0
                              THEN [r EXCEPT !.a = mid, !.sign_a = sign_at(mid), !.n = @ + 1]
                              ELSE [r EXCEPT !.b = mid, !.n = @ + 1]
        \* 749-793; a NaN difference is the empty sequence: it is neither
        \* below epsilon nor on either side of zero
        degree_hit ==
            LET diff(t) == IF fin(t) THEN <<angdiff(FnAt(c.f, t), c.target_deg)>> ELSE <<>>
                hit(x) == x # <<>> /\ x[1] = 0
                cross(p, q) ==
                    /\ p # <<>> /\ q # <<>>
                    /\ (p[1] <= 0 /\ 0 <= q[1]) \/ (p[1] >= 0 /\ 0 >= q[1])
            IN  IF r.fn = "none"
                THEN IF c.start >= c.end THEN Done
                     ELSE [fn |-> c.fn, at |-> "loop", prev_time |-> c.start,
                           prev_diff |-> diff(c.start), t |-> Min2(c.start + d, c.end)]
                ELSE IF r.at = "loop"
                THEN IF hit(diff(r.t)) THEN Done
                     ELSE IF cross(r.prev_diff, diff(r.t))
                          THEN [fn |-> c.fn, at |-> "bisect", left |-> r.prev_time,
                                right |-> r.t, left_diff |-> r.prev_diff, n |-> 0]
                     ELSE IF r.t >= c.end THEN Done
                     ELSE [r EXCEPT !.prev_time = r.t, !.prev_diff = diff(r.t),
                                    !.t = Min2(r.t + d, c.end)]
                ELSE IF r.n = 60 \/ ~wide(r.left, r.right) THEN Done
                     ELSE LET mid == mid_datetime(r.left, r.right)
                          IN  IF hit(diff(mid)) THEN Done
                              ELSE IF cross(r.left_diff, diff(mid))
                              THEN [r EXCEPT !.right = mid, !.n = @ + 1]
                              ELSE [r EXCEPT !.left = mid, !.left_diff = diff(mid),
                                             !.n = @ + 1]
        \* 717-748  every path of the loop ends in line 733 or 744
        combustion ==
            IF r.fn = "none" THEN [fn |-> c.fn, at |-> "loop", t |-> c.start]
            ELSE IF ~(r.t <= c.end) THEN Done
            ELSE [r EXCEPT !.t = Min2(r.t + d, c.end + Seconds(1))]
        \* 382-407
        velocity_brackets ==
            IF r.fn = "none" THEN [fn |-> c.fn, at |-> "loop", t_curr |-> Min2(c.start + d, c.end)]
            ELSE IF ~(r.t_curr < c.end) THEN Done
            ELSE IF Min2(r.t_curr + d, c.end) <= r.t_curr THEN Done
            ELSE [r EXCEPT !.t_curr = Min2(r.t_curr + d, c.end)]
        Active == IF ret.fn = "none" THEN TRUE ELSE ret.at # "done"
    IN  \/ call.fn = "find_sign_changes" /\ Active /\ ret' = sign_changes
           /\ UNCHANGED <<svcAll, initVars, call>>
        \/ call.fn = "find_segment_changes" /\ Active /\ ret' = segment_changes
           /\ UNCHANGED <<svcAll, initVars, call>>
        \/ call.fn = "find_stations" /\ Active /\ ret' = stations
           /\ UNCHANGED <<svcAll, initVars, call>>
        \/ call.fn = "find_degree_hit" /\ Active /\ ret' = degree_hit
           /\ UNCHANGED <<svcAll, initVars, call>>
        \/ call.fn = "find_combustion" /\ Active /\ ret' = combustion
           /\ UNCHANGED <<svcAll, initVars, call>>
        \/ call.fn = "velocity_brackets_for_planet" /\ Active /\ ret' = velocity_brackets
           /\ UNCHANGED <<svcAll, initVars, call>>
\* a call that has been made keeps running: the interpreter executes the
\* next iteration
SpecLoops == InitLoops /\ [][NextLoops]_vars /\ WF_vars(NextLoops)

(***************************************************************************)
(* Properties.                                                             *)
(***************************************************************************)
Running(b) == Cardinality({i \in DOMAIN batch[b].task : batch[b].task[i] = "running"})
Months(bp) == {bp.month_start_isos[i] : i \in DOMAIN bp.month_start_isos}
\* what calling compute_monthly for month m of the request yields
Individually(bp, m) == compute_monthly(bp.lat, bp.lon, bp.tz, m)
StoreEnabled == dbUrl = "set" /\ dbUp

\* C1: a row written by cache_month for a request of one ayanamsa is never
\* what get_cached_month returns to a request of another ayanamsa with the
\* same lat, lon, tz and month.
C1_KeyedByAyanamsa ==
    dbOut.op = "get_cached_month" =>
        \A h \in dbOut.hit : writtenFor[h.id] = dbOut.for

\* C2: every batch request returns, for each requested month that
\* compute_monthly can compute, the record compute_monthly returns for that
\* month when called on its own.
C2_BatchEquivalence ==
    resp.endpoint = "batch" =>
        /\ resp.status = 200
        /\ \A m \in Months(resp.breq) :
              Individually(resp.breq, m).raised = "none" =>
                 /\ m \in DOMAIN resp.months
                 /\ resp.months[m] = OkResult(Individually(resp.breq, m).data)

C4_Inv == \A b \in BatchIds : Running(b) <= SEMAPHORE_LIMIT
C4_Step ==
    \A b \in BatchIds : \A i \in 1..(MaxTasks + 1) :
        TaskStart(b, i) => Running(b) < SEMAPHORE_LIMIT
C4_AtMostSix == []C4_Inv /\ [][C4_Step]_vars
C4_Witness ==
    \E b \in BatchIds :
        /\ Running(b) = SEMAPHORE_LIMIT
        /\ \E i \in DOMAIN batch[b].task : batch[b].task[i] = "pending"

\* C5: a requested month that is found in the persistent store is taken
\* from it: the batch returns that row's record for the month.
C5_CachedMonthTaken ==
    resp.endpoint = "batch" /\ StoreEnabled =>
        \A m \in Months(resp.breq) :
            \A r \in SelectRows(table,
                         location_hash(resp.breq.lat, resp.breq.lon, resp.breq.tz),
                         Prefix7(m)) :
                /\ resp.status = 200
                /\ m \in DOMAIN resp.months
                /\ resp.months[m] = OkResult(JsonLoads(r.data))

C7_StoreUnavailableDegrades ==
    resp.endpoint = "batch" /\ ~StoreEnabled =>
        /\ resp.status = 200
        /\ \A m \in Months(resp.breq) :
              Individually(resp.breq, m).raised = "none" =>
                  m \in DOMAIN resp.months /\ resp.months[m].ok

\* C8: a monthly request for a month that can be computed returns the
\* ok:true record of compute_monthly (computed by the first request, served
\* from the in-memory store to the second, recomputed after invalidation).
C8_MonthlyIdempotence ==
    resp.endpoint = "monthly" /\ IsoParses(resp.req.month_start_iso) =>
        /\ resp.status = 200
        /\ resp.body = {OkResult(compute_monthly(resp.req.lat, resp.req.lon, resp.req.tz,
                                                 resp.req.month_start_iso).data)}

\* C9: after set(key, v) at time t, get(key) returns v at every time before
\* t + ttl and None at every time from t + ttl on, counted from the last set
\* of the key; get returns only data whose expiry is in the future; the get
\* that finds an entry expired removes it, and get removes nothing else.
C9_Inv ==
    /\ \A s \in got.since :
          /\ got.at < s.at + EVENTS_TTL => got.result = {s.data}
          /\ got.at >= s.at + EVENTS_TTL => got.result = {}
    /\ got.result # {} => \A e \in got.entry : e.expires_at > got.at
C9_Step ==
    \A k \in UnitKeys :
        CGet(k) =>
            /\ (k \in DOMAIN store /\ store[k].expires_at <= now) => k \notin DOMAIN store'
            /\ (k \in DOMAIN store /\ store[k].expires_at > now) => k \in DOMAIN store'
            /\ \A k2 \in DOMAIN store \ {k} : k2 \in DOMAIN store' /\ store'[k2] = store[k2]
C9_TtlStore == []C9_Inv /\ [][C9_Step]_vars
C9_Witness ==
    /\ got.entry # {}
    /\ got.result = {}
    /\ \E s \in got.since : got.at = s.at + EVENTS_TTL
    /\ got.key \notin DOMAIN store

\* C10: the table holds one row per (location_hash, month_start); a
\* cache_month that reaches the store leaves that key's row holding the
\* record just written and every other row as it was; on an existing key
\* total_months_cached and unique_locations stay, on a new key
\* total_months_cached grows by exactly 1; nothing else changes the table.
C10_Inv ==
    \A r1 \in table : \A r2 \in table :
        (r1.location_hash = r2.location_hash /\ r1.month_start = r2.month_start) => r1 = r2
C10_Write(lat, lon, tz, iso, data) ==
    LET lh == location_hash(lat, lon, tz)
        ms == Prefix7(iso)
        before == CacheStats(table, TRUE)
        after == CacheStats(table', TRUE)
    IN  /\ \E r \in table' :
              /\ SelectRows(table', lh, ms) = {r}
              /\ JsonLoads(r.data) = data
              /\ r.computed_at = now
        /\ \A r \in table :
              (r.location_hash # lh \/ r.month_start # ms) => r \in table'
        /\ IF SelectRows(table, lh, ms) # {}
           THEN /\ after.total_months_cached = before.total_months_cached
                /\ after.unique_locations = before.unique_locations
           ELSE after.total_months_cached = before.total_months_cached + 1
C10_Step ==
    /\ \A lat \in Lats, lon \in Lons, tz \in Tzs, iso \in DbMonths,
          data \in DbData, ay \in DbAyanamsas :
          (CacheMonthCall(lat, lon, tz, iso, data, ay) /\ ~dbOut'.raised /\ pool')
              => C10_Write(lat, lon, tz, iso, data)
    /\ (dbOut'.op # "cache_month" \/ dbOut'.raised \/ ~pool') => table' = table
C10_Upsert == []C10_Inv /\ [][C10_Step]_vars
C10_Witness ==
    /\ dbOut.op = "cache_month"
    /\ nextId = 3
    /\ Cardinality(table) = 1
    /\ \E r \in table : r.computed_at = 1

\* C11: however the threads calling _initialise_once interleave, the
\* sidereal mode and the ephemeris path are each set at most once, a caller
\* has returned only after both were set and the flag was raised, and the
\* flag never goes back to False.
C11_Inv ==
    /\ swe.sid_calls <= 1
    /\ swe.path_calls <= 1
    /\ \A t \in Threads :
          pc[t].returns > 0 =>
             initialised /\ swe.sid_calls = 1 /\ swe.path_calls = 1
                         /\ swe.sid_mode = "SIDM_RAMAN"
C11_Step == initialised => initialised'
C11_OnceOnly == []C11_Inv /\ [][C11_Step]_vars
\* a thread that saw the flag down at line 205 holds the lock after another
\* thread finished the setup, and a third has already returned
C11_Witness ==
    /\ initialised
    /\ \E t \in Threads : pc[t].at = "208"
    /\ \E t \in Threads : pc[t].returns > 0

ScanReturned == ret.fn \in {"find_sign_changes", "find_segment_changes"}

\* C15: in what one _find_sign_changes or _find_segment_changes call
\* returns, each emitted instant is more than 5 s after the one before it
\* (hence the instants are strictly increasing and any two are more than 5 s
\* apart).
C15_DedupBound ==
    ScanReturned =>
       \A i, j \in DOMAIN ret.out :
          i < j => ret.out[j].time_utc - ret.out[i].time_utc > Seconds(5)
\* two boundaries were emitted by a scan of a function whose jumps are
\* far apart
C15_Witness ==
    /\ ScanReturned
    /\ Len(ret.out) >= 2

\* C16: every SignChange that _find_sign_changes emits at T has the
\* function in sign from_index at T - 1 s and in sign to_index at T + 1 s.
C16_Hysteresis ==
    ret.fn = "find_sign_changes" =>
       \A i \in DOMAIN ret.out :
          LET c == ret.out[i]
              before == FnAt(call.f, c.time_utc - Seconds(1))
              after == FnAt(call.f, c.time_utc + Seconds(1))
          IN  /\ isfinite(before) /\ isfinite(after)
              /\ sign_index(before) = c.from_index
              /\ sign_index(after) = c.to_index
\* a scan emitted exactly one boundary of a function that jumps twice in
\* its window: the other refined boundary was skipped
C16_Witness ==
    /\ ret.fn = "find_sign_changes"
    /\ Len(ret.out) = 1
    /\ Len(call.f.changes) = 2
    /\ ret.raised = "none"

\* C18: when the scanned function is NaN at some instants,
\* _find_sign_changes returns without raising.
C18_NaNTolerance ==
    (ret.fn = "find_sign_changes" /\ call.f.nan # {}) => ret.raised = "none"

MonthlyReturned == ret.fn = "compute_monthly" /\ ret.raised = "none"
Elems(s) == {s[i] : i \in DOMAIN s}

\* C12: every row of moonMonthlyRows, sunRows, otherIngressRows and
\* velocityRows of a returned record has its local time in
\* [month_start_local, month_end_local).
C12_MonthClip ==
    MonthlyReturned =>
       \A r \in Elems(ret.record.moonMonthlyRows) \cup Elems(ret.record.sunRows)
                  \cup Elems(ret.record.otherIngressRows)
                  \cup Elems(ret.record.velocityRows) :
          ret.window.month_start_local <= r.timeISO /\ r.timeISO < ret.window.month_end_local
\* a boundary at the first instant of the month is in the record, and a
\* sign change at the first instant of the next month is not
C12_Witness ==
    /\ MonthlyReturned
    /\ \E r \in Elems(ret.record.moonMonthlyRows) :
          r.timeISO = ret.window.month_start_local /\ call.eph.moon_changes # <<>>
    /\ \E i \in DOMAIN call.eph.ingress["Mercury"].out :
          call.eph.ingress["Mercury"].out[i].time_utc = ret.window.month_end_ms
    /\ \A r \in Elems(ret.record.otherIngressRows) : r.body # "Mercury"

\* C13: a retrograde window or a combustion window is in the returned
\* record if and only if [start, end) meets [month_start_local,
\* month_end_local).
C13_IntervalFilter ==
    MonthlyReturned =>
       LET w == ret.window
           tz_name == call.tz_name
           Meets(r) == /\ RowMs(r.startISO, tz_name) < w.month_end_ms
                       /\ RowMs(r.endISO, tz_name) > w.month_start_ms
       IN  /\ \A r \in Elems(station_rows(w, tz_name, call.eph)) :
                 (r \in Elems(ret.record.stationRows)) <=> Meets(r)
           /\ \A item \in Elems(COMBUSTION_ORBS) :
                 \A k \in DOMAIN call.eph.combustion[item[1]] :
                    LET win == call.eph.combustion[item[1]][k]
                        r == CombRow(win[1], win[2], item[1], item[2], tz_name)
                    IN  (r \in Elems(ret.record.combRows)) <=> Meets(r)

NonDecreasing(rows) == \A i, j \in DOMAIN rows : i < j => rows[i].at <= rows[j].at

\* C14: in a returned record moonMonthlyRows, sunRows, otherIngressRows and
\* velocityRows are in non-decreasing order of their instants, stationRows
\* and combRows in non-decreasing order of their start instants.
C14_MonotoneOrdering ==
    MonthlyReturned =>
       /\ NonDecreasing(ret.record.moonMonthlyRows)
       /\ NonDecreasing(ret.record.sunRows)
       /\ NonDecreasing(ret.record.otherIngressRows)
       /\ NonDecreasing(ret.record.velocityRows)
       /\ NonDecreasing(ret.record.stationRows)
       /\ NonDecreasing(ret.record.combRows)

\* C17: every row of sunRows and otherIngressRows of a returned record has
\* from different from to.
C17_FromDiffersTo ==
    MonthlyReturned =>
       \A r \in Elems(ret.record.sunRows) \cup Elems(ret.record.otherIngressRows) :
          r.from # r.to

\* C19: when no Moon pada boundary falls inside the month and the Moon's
\* longitude at the month's first instant is finite, moonMonthlyRows is one
\* record at the month's first instant with the (nakshatra, pada) there;
\* otherwise it has one record per boundary inside the month.
C19_MoonRows ==
    MonthlyReturned =>
       LET w == ret.window
           changes == call.eph.moon_changes
           inside == {i \in DOMAIN changes :
                        LET local == format_local(changes[i].time_utc, call.tz_name)
                        IN  w.month_start_local <= local /\ local < w.month_end_local}
           p == pada_index_from_lon(call.eph.moon_at_start)
           rows == ret.record.moonMonthlyRows
       IN  IF inside = {}
           THEN isfinite(call.eph.moon_at_start) =>
                   /\ Len(rows) = 1
                   /\ rows[1].timeISO = w.month_start_local
                   /\ rows[1].nakshatra = p.nak_idx /\ rows[1].pada = p.pada
           ELSE Len(rows) = Cardinality(inside)

\* C20: for a month_start of any day and time of day, month_start_local is
\* day 1 at 00:00:00 of that calendar month in tz, month_end_local the
\* first instant of the following month, and the scan window runs from 45
\* days before the one to 45 days after the other.
C20_MonthWindow ==
    MonthlyReturned =>
       LET iso == call.month_start_iso
           first == Local(iso.year, iso.month, 1, 0)
           next == IF iso.month = 12 THEN Local(iso.year + 1, 1, 1, 0)
                   ELSE Local(iso.year, iso.month + 1, 1, 0)
       IN  /\ ret.window.month_start_local = Wall(first)
           /\ ret.window.month_end_local = Wall(next)
           /\ ret.window.start_utc = WallToUtc(call.tz_name, Wall(first) - Days(45))
           /\ ret.window.end_utc = WallToUtc(call.tz_name, Wall(next) + Days(45))

\* C21: every retrograde window of a record compute_monthly returns either
\* runs from a retrograde station to the next direct station, or starts at
\* the start of the scan window with the body retrograde there, or ends at
\* the end of the scan window after an unpaired retrograde station.
C21_RetrogradePairing ==
    MonthlyReturned =>
       \A r \in Elems(ret.record.stationRows) :
          LET st == call.eph.stations[r.planet]
              ev == SortBy(st.events, "time_utc")
              n == Len(ev)
          IN  \/ \E i \in 1..(n - 1) :
                    /\ ev[i].kind = "retrograde" /\ ev[i + 1].kind = "direct"
                    /\ r.at = ev[i].time_utc /\ r.until = ev[i + 1].time_utc
              \/ /\ r.at = ret.window.start_utc /\ st.initial_retro
                 /\ n > 0 /\ ev[1].kind = "direct" /\ r.until = ev[1].time_utc
              \/ /\ r.until = ret.window.end_utc
                 /\ n > 0 /\ ev[n].kind = "retrograde" /\ r.at = ev[n].time_utc

\* C22: in the list _find_stations returns, any two consecutive stations
\* have different kinds.
C22_StationsAlternate ==
    ret.fn = "find_stations" =>
       \A i \in 1..(Len(ret.out) - 1) : ret.out[i].kind # ret.out[i + 1].kind

\* C28: a station found by _find_stations is dropped when the last station
\* of the list has its kind and is less than 6 h earlier; otherwise it is
\* appended and the stations already in the list stay as they were.
C28_StationDropRule ==
    ret.fn = "find_stations" =>
       \A k \in DOMAIN ret.log :
          LET e == ret.log[k]
              last == e.before[Len(e.before)]
          IN  IF /\ e.before # <<>> /\ last.kind = e.station.kind
                 /\ e.station.time_utc - last.time_utc < Hours(6)
              THEN e.after = e.before
              ELSE e.after = Append(e.before, e.station)

\* C24: once initialisation has completed, the ephemeris path is the first
\* existing directory in the order $SWISS_EPHE_PATH, <repo>/swisseph/ephe,
\* <repo>/vedic-ui/node_modules/swisseph/ephe, /usr/share/swisseph, and no
\* path is set when none of them exists.
C24_DiscoveryOrder ==
    initialised =>
       LET order == (IF swe.env THEN <<"$SWISS_EPHE_PATH">> ELSE <<>>)
                      \o <<"swisseph/ephe", "vedic-ui/node_modules/swisseph/ephe",
                           "/usr/share/swisseph">>
           S == {i \in DOMAIN order : order[i] \in swe.dirs}
       IN  swe.ephe_path = IF S = {} THEN "default"
                           ELSE order[CHOOSE i \in S : \A j \in S : i <= j]

SeriesReturned == ret.fn = "compute_planetary_timeseries" /\ ret.raised = "none"

\* C23 as stated: at every instant of compute_planetary_timeseries('Ketu',
\* ts) the longitude is that of compute_planetary_timeseries('Rahu', ts)
\* plus 180 degrees modulo 360, a value in [0, 360).
C23_KetuEveryInstant ==
    (SeriesReturned /\ call.planet = "Ketu") =>
       LET rahu == compute_planetary_timeseries("Rahu", call.timestamps, call.sky).data
       IN  \A i \in DOMAIN ret.data :
              /\ ret.data[i].longitude = (rahu[i].longitude + 180 * ARCMIN) % (360 * ARCMIN)
              /\ ret.data[i].longitude >= 0 /\ ret.data[i].longitude < 360 * ARCMIN

\* C23: at every instant at which the ephemeris yields the node, the
\* longitude of Ketu is that of Rahu plus 180 degrees modulo 360, a value
\* in [0, 360); at an instant at which it fails both are NaN.
C23_KetuIdentity ==
    (SeriesReturned /\ call.planet = "Ketu") =>
       LET rahu == compute_planetary_timeseries("Rahu", call.timestamps, call.sky).data
       IN  /\ DOMAIN rahu = DOMAIN ret.data
           /\ \A i \in DOMAIN ret.data :
                 IF isfinite(rahu[i].longitude)
                 THEN /\ ret.data[i].longitude
                           = (rahu[i].longitude + 180 * ARCMIN) % (360 * ARCMIN)
                      /\ ret.data[i].longitude >= 0 /\ ret.data[i].longitude < 360 * ARCMIN
                 ELSE ~isfinite(ret.data[i].longitude)
\* Ketu read where the node is past 180 degrees, so that the sum wraps
C23_Witness ==
    /\ SeriesReturned /\ call.planet = "Ketu"
    /\ \E i \in DOMAIN ret.data :
          /\ FnAt(call.sky["TRUE_NODE"], Seconds(call.timestamps[i] - 1672531200))
                = 350 * ARCMIN + 30
          /\ ret.data[i].longitude = 170 * ARCMIN + 30

\* C27: compute_planetary_timeseries raises ValueError for a name that is
\* not a body, before it evaluates any timestamp, and the endpoint answers
\* 400; for a body it returns one {time, longitude} entry per timestamp, in
\* the order of the input, with time the timestamp.
C27_Timeseries ==
    ret.fn = "compute_planetary_timeseries" =>
       IF call.planet \in PLANET_IDS
       THEN /\ ret.raised = "none"
            /\ Len(ret.data) = Len(call.timestamps)
            /\ \A i \in DOMAIN call.timestamps :
                  /\ DOMAIN ret.data[i] = {"time", "longitude"}
                  /\ ret.data[i].time = call.timestamps[i]
       ELSE /\ ret.raised = "ValueError" /\ ret.evaluated = 0 /\ ret.data = <<>>
            /\ resp.status = 400
C27_Witness ==
    /\ ret.fn = "compute_planetary_timeseries"
    /\ call.planet = "Vulcan" /\ Len(call.timestamps) = 3
    /\ ret.raised = "ValueError"

\* C26: a request that succeeds is answered ok:true with its data, and a
\* request that fails is answered ok:false with one error message and no
\* data.
C26_CallerContract ==
    resp.endpoint = "timeseries" =>
       \E body \in resp.body :
          \/ body.ok /\ body.data = ret.data /\ ret.raised = "none"
          \/ ~body.ok /\ ret.raised # "none" /\ DOMAIN body = {"ok", "error"}

\* C25: the map a batch returns has exactly one entry for each distinct
\* month of the request, and the entry of a month is what compute_one_month
\* yields for that month alone, in whatever order the concurrently running
\* tasks of the batch (and of other batches) completed.
C25_Inv ==
    (resp.endpoint = "batch" /\ resp.status = 200) =>
        /\ DOMAIN resp.months = Months(resp.breq)
        /\ \A m \in Months(resp.breq) :
              LET bp == resp.breq
                  out == run_sync_compute_monthly(<<bp.lat, bp.lon, bp.tz, m, bp.ayanamsa>>)
              IN  resp.months[m] =
                     IF out.raised # "none" THEN ErrResult(out.raised)
                     ELSE IF ~Binds(<<bp.lat, bp.lon, bp.tz, m, out.data, bp.ayanamsa>>,
                                    cache_month_params)
                     THEN ErrResult("TypeError")
                     ELSE OkResult(out.data)
C25_Step ==
    \A b \in BatchIds :
       (batch[b].pc = "gather" /\ batch'[b].pc = "idle") =>
           /\ resp'.endpoint = "batch" /\ resp'.status = 200
           /\ resp'.breq = batch[b].payload
C29_CombustionWindows ==
    ret.fn = "find_combustion" =>
       LET step == Minutes(call.coarse_minutes)
           Samples == {t \in {call.start + k * step : k \in 0..((call.end - call.start) \div step)} :
                          /\ isfinite(FnAt(call.sun_fn, t))
                          /\ isfinite(FnAt(call.planet_fn, t))}
           Sep(t) == LET d == (FnAt(call.sun_fn, t) - FnAt(call.planet_fn, t)) % (360 * ARCMIN)
                     IN  IF d > 180 * ARCMIN THEN 360 * ARCMIN - d ELSE d
           Within(t) == Sep(t) <= call.orb_deg * ARCMIN
           Before(t) == {u \in Samples : u < t}
           Opens == {t \in Samples : /\ Within(t)
                                     /\ Before(t) # {} => ~Within(MaxOf(Before(t)))}
           Close(t) == LET later == {u \in Samples : u > t /\ ~Within(u)}
                       IN  IF later = {} THEN call.end
                           ELSE CHOOSE u \in later : \A v \in later : u <= v
       IN  /\ Elems(ret.out) = {<<t, Close(t)>> : t \in Opens}
           /\ Len(ret.out) = Cardinality(Opens)
           /\ \A i, j \in DOMAIN ret.out : i < j => ret.out[i][1] < ret.out[j][1]
\* two windows, a failed sample inside the first, the second still open
\* at the end of a scan that does not end on a sample
C29_Witness ==
    /\ ret.fn = "find_combustion"
    /\ call.planet_fn.nan = {Hours(3)} /\ call.end = Hours(6) - Minutes(30)
    /\ ret.out = <<<<Hours(2), Hours(4)>>, <<Hours(5), call.end>>>>

\* C30: when f is finite everywhere, _find_sign_changes emits a SignChange
\* inside every coarse step whose two ends have different sign indices and
\* that holds a single boundary more than 5 s after the last event emitted
\* before it, whatever happened to the changes of earlier steps.
C30_EventPerBoundary ==
    (ret.fn = "find_sign_changes" /\ ret.raised = "none" /\ call.f.nan = {}) =>
       LET delta == Minutes(call.coarse_minutes)
           Idx(t) == sign_index(FnAt(call.f, t))
           Boundaries(a, b) ==
               {i \in DOMAIN call.f.changes :
                   /\ a < call.f.changes[i].at /\ call.f.changes[i].at <= b
                   /\ Idx(call.f.changes[i].at - 1) # Idx(call.f.changes[i].at)}
       IN  \A k \in 0..((call.end - call.start) \div delta) :
              LET a == call.start + k * delta
                  b == Min2(a + delta, call.end)
              IN  (/\ a < call.end
                   /\ Idx(a) # Idx(b)
                   /\ Cardinality(Boundaries(a, b)) = 1
                   /\ \A i \in Boundaries(a, b) : \A e \in Elems(ret.out) :
                         e.time_utc < call.f.changes[i].at
                            => call.f.changes[i].at - e.time_utc > Seconds(5))
                  => \E e \in Elems(ret.out) : a < e.time_utc /\ e.time_utc <= b

\* C39: the windows _find_combustion returns are in increasing time order,
\* each ends no later than the next starts, each lies inside [start, end]
\* and each starts strictly before it ends.
C39_WindowsOrdered ==
    ret.fn = "find_combustion" =>
       /\ \A i \in DOMAIN ret.out :
             /\ call.start <= ret.out[i][1] /\ ret.out[i][2] <= call.end
             /\ ret.out[i][1] < ret.out[i][2]
       /\ \A i \in 1..(Len(ret.out) - 1) : ret.out[i][2] <= ret.out[i + 1][1]

\* C31: in the list _velocity_extrema_for_planet returns no two adjacent
\* entries are both within 6 minutes and within 1e-4 degree per day of each
\* other, and of two entries merged the one kept has the larger curvature.
C31_ExtremaDeduped ==
    ret.fn = "velocity_extrema_for_planet" =>
       /\ \A i \in 1..(Len(ret.out) - 1) :
             ~(/\ ret.out[i + 1].time_utc - ret.out[i].time_utc <= Minutes(6)
               /\ ret.out[i + 1].speed - ret.out[i].speed <= 10
               /\ ret.out[i].speed - ret.out[i + 1].speed <= 10)
       /\ \A k \in DOMAIN ret.log :
             /\ ret.log[k].kept \in {ret.log[k].last, ret.log[k].entry}
             /\ ret.log[k].kept.curvature >= ret.log[k].last.curvature
             /\ ret.log[k].kept.curvature >= ret.log[k].entry.curvature

\* C32: the moonRows compute_horizon returns start with a record at the
\* window start carrying the Moon's nakshatra and pada there, followed by
\* one record per pada boundary of the scan, in the order of the scan, each
\* carrying the nakshatra and pada entered at that boundary.
C32_HorizonSeeding ==
    (ret.fn = "compute_horizon" /\ ret.raised = "none") =>
       LET rows == ret.moonRows
           found == call.eph.pada.out
           seed == pada_index_from_lon(call.eph.moon_at_start)
       IN  /\ Len(rows) = 1 + Len(found)
           /\ rows[1].at = ret.start_utc
           /\ rows[1].nakshatra = seed.nak_idx /\ rows[1].pada = seed.pada
           /\ \A i \in DOMAIN found :
                 LET p == pada_from_segment_index(found[i].to_index)
                 IN  /\ rows[i + 1].at = found[i].time_utc
                     /\ rows[i + 1].nakshatra = p.nak_idx % 27
                     /\ rows[i + 1].pada = p.pada

\* C33: _add_month(d, k) is the date k calendar months after d's month, the
\* year carried across December and January in both directions, its day
\* the smaller of d's day and the length of the target month by the
\* Gregorian rule, its time of day that of d; it is a date of the calendar.
C33_MonthArithmetic ==
    ret.fn = "add_month" =>
       LET d == call.dt
           r == ret.value
           leap == (r.year % 4 = 0 /\ r.year % 100 # 0) \/ r.year % 400 = 0
           length == <<31, IF leap THEN 29 ELSE 28, 31, 30, 31, 30, 31, 31, 30, 31, 30, 31>>
       IN  /\ r.month \in 1..12
           /\ r.year * 12 + (r.month - 1) = d.year * 12 + (d.month - 1) + call.months
           /\ r.day \in 1..length[r.month]
           /\ r.day = d.day \/ (r.day = length[r.month] /\ d.day > r.day)
           /\ r.sod = d.sod
\* 31 January 2024 a month on is 29 February, and 13 months back 31 December 2022
C33_Witness ==
    /\ ret.fn = "add_month" /\ call.dt = Local(2024, 1, 31, 37800)
    /\ \/ call.months = 1 /\ ret.value = Local(2024, 2, 29, 37800)
       \/ call.months = 0 - 13 /\ ret.value = Local(2022, 12, 31, 37800)

C36_RetrogradeMonthCovered ==
    MonthlyReturned =>
       \A planet \in Elems(STATION_PLANET_NAMES) :
          LET st == call.eph.stations[planet]
              w == ret.window
              before == SelectSeq(SortBy(st.events, "time_utc"),
                                  LAMBDA ev : ev.time_utc <= w.month_start_ms)
              retro_at_start == IF before = <<>> THEN st.initial_retro
                                ELSE before[Len(before)].kind = "retrograde"
              retro_all_month ==
                  /\ retro_at_start
                  /\ \A ev \in Elems(st.events) :
                        ~(w.month_start_ms < ev.time_utc /\ ev.time_utc < w.month_end_ms)
          IN  retro_all_month =>
                 \E r \in Elems(ret.record.stationRows) :
                    /\ r.planet = planet /\ r.state = "retrograde"
                    /\ r.at < w.month_end_ms /\ r.until > w.month_start_ms

\* C38: in what one _find_sign_changes or _find_segment_changes call
\* returns, the first event leaves the index of the seeding sample (the
\* first finite one of the first ten coarse samples), every later event
\* leaves the index the event before it entered, and no event enters the
\* index it leaves.
C38_ChainContinuity ==
    (ScanReturned /\ ret.raised = "none") =>
       LET size == IF ret.fn = "find_sign_changes" THEN 30 * ARCMIN ELSE PADA_SEGMENT_DEG
           Sample(i) == Min2(call.start + i * Minutes(call.coarse_minutes), call.end)
           seeds == {i \in 0..9 : isfinite(FnAt(call.f, Sample(i)))}
           seed == CHOOSE i \in seeds : \A j \in seeds : i <= j
       IN  /\ ret.out # <<>> =>
                /\ seeds # {}
                /\ ret.out[1].from_index = (mod360(FnAt(call.f, Sample(seed))) \div size)
           /\ \A i \in 2..Len(ret.out) : ret.out[i].from_index = ret.out[i - 1].to_index
           /\ \A i \in DOMAIN ret.out : ret.out[i].from_index # ret.out[i].to_index
\* a scan seeded after a failed first sample that returns two or more events
C38_Witness ==
    /\ ScanReturned /\ ret.raised = "none" /\ Len(ret.out) >= 2
    /\ ~isfinite(FnAt(call.f, call.start))

\* C34: for every finite x, _mod360(x) is at least 0 and less than 360 and
\* is x reduced modulo 360 (to the nearest float); _angdiff(a, b) is more
\* than -180 and at most 180; _sign_index(x) is one of 0..11 and
\* _pada_index_from_lon(x) a nakshatra of 0..26 and a pada of 1..4.
C34_Mod360Closure ==
    ret.fn = "mod360" =>
       LET turn == 360 * Pow2(FracBits)
       IN  /\ 0 <= ret.mod360 /\ ret.mod360 < turn
           /\ ret.mod360 = Fl(call.x % turn, 1)
           /\ 0 - (turn \div 2) < ret.angdiff /\ ret.angdiff <= turn \div 2
           /\ ret.sign_index \in 0..11
           /\ ret.pada_index.nak_idx \in 0..26 /\ ret.pada_index.pada \in 1..4

\* C37: every call of a scanner returns (or raises): its loops terminate,
\* whatever the window, the coarse step and the samples at which the
\* scanned function fails; a bisection halves its bracket only while the
\* bracket is wider than 1 s and, where it counts them, fewer than 60
\* halvings have been made.
C37_Terminates ==
    /\ <>(ret.fn # "none" /\ ret.at = "done")
    /\ [][(ret.fn # "none" /\ ret.at \in {"refine", "bisect"} /\ ret'.at = ret.at)
            => /\ IF "a" \in DOMAIN ret THEN ret.b - ret.a > Seconds(1)
                  ELSE ret.right - ret.left > Seconds(1)
               /\ ret.at = "bisect" => ret.n < 60]_vars
\* a bisection of _find_segment_changes over a failed midpoint has made
\* four halvings or more and its bracket is down to 1 s
C37_Witness ==
    /\ ret.fn = "find_segment_changes" /\ ret.at = "bisect"
    /\ ret.n >= 4 /\ ret.right - ret.left <= Seconds(1)
    /\ \E t \in call.f.nan : call.start < t /\ t < call.end

====
